---------------------------- MODULE Spec2Model ----------------------------
(***************************************************************************)
(* A model of the fetch pipeline of scripts/fetchData.js:                  *)
(*   - ConcurrencyLimiter (lines 80-101),                                  *)
(*   - graphRequest (lines 103-127),                                       *)
(*   - fetchBatch and fetchPoolSwapsSuperFast (lines 141-212),             *)
(*   - fetchPoolDetails (lines 129-139) and main (lines 276-374),          *)
(*   - the aggregation (lines 214-274).                                    *)
(* JavaScript runs one job at a time; an async function is cut at its      *)
(* awaits, so every action below is one run-to-suspension step.            *)
(*                                                                         *)
(* The specifications share the variables:                                 *)
(*   SpecLim    the limiter alone, driven by callers arriving at any time  *)
(*              (SpecLimFair: with the fairness of the job queue);         *)
(*   SpecGR     one graphRequest call against an arbitrary server;         *)
(*   SpecFetch  fetchPoolSwapsSuperFast with its limiter and its requests; *)
(*   SpecMain   main: the chain tasks, the counters and the output         *)
(*              (SpecMainFair: with requests that are answered);           *)
(*   SpecAgg    calculateVolumeAndFees, calculateTotalVolume and           *)
(*              aggregateWeekly on the swaps of one chain.                 *)
(***************************************************************************)
EXTENDS Integers, Sequences, FiniteSets

VARIABLES
    limit,      \* ConcurrencyLimiter.limit
    running,    \* ConcurrencyLimiter.running
    queue,      \* ConcurrencyLimiter.queue: the suspended callers' resolvers
    wake,       \* resolved waiters whose continuation job is still queued
    pc,         \* caller -> "idle" | "waiting" | "released" | "running" | "done"
    arrived,    \* history: callers in the order they called run
    enq,        \* history: callers in the order they were pushed on queue
    relOrder,   \* history: callers in the order their resolver was called
    started,    \* history: callers in the order their unit began executing
    req,        \* request slot -> the state of its graphRequest call
    trace,      \* history (SpecGR): the sends, responses and waits of slot 0
    fpc,        \* fetchPoolSwapsSuperFast: "none" | "first" | "issuing" | "wave"
                \*   | "returned" | "threw"
    allSwaps,   \* allSwaps
    skip,       \* skip
    emptyCount, \* emptyCount
    chunk,      \* chunk, the wave counter
    idx,        \* i of the inner loop that issues a wave
    slotSkip,   \* slot -> currentSkip of its request
    results,    \* slot -> what its chunkPromise settled with; slot 0: first
    doneOrder,  \* history: the slots of this wave in completion order
    outstanding,\* history: offsets handed to limiter.run and not settled yet
    stopAt,     \* history: <<offset>> of the page at which the result loop
                \*   returned, <<>> before
    failedPages,\* history: offsets whose request failed inside fetchBatch
    issuedLog,  \* history: the offsets handed to limiter.run, in order
    begun,      \* history: the offsets whose graphRequest call began, in order
    unitOut,    \* caller -> how its unit fn settled: "none" | "ok" | "threw"
    runOut,     \* caller -> how its run call settled: "none" | "ok" | "threw"
    mpc,        \* main: "none" | "chains" (awaiting Promise.all) | "written"
                \*   | "fatal" (main rejected: main().catch, exit code 1)
    cpc,        \* chain -> its task: "details" | "swaps" | "done"
    poolOf,     \* chain -> pool, what fetchPoolDetails returned
    progress,   \* progress: total, completed, successful, failed
    cres,       \* chain -> what its chainPromise resolved with
    output,     \* output: chains and poolMetadata, keyed by chain name, and
                \*   lastUpdated
    tally,      \* history: chain -> the increments its task made
    reason,     \* history: chain -> the message its task logged
    found,      \* history: chain -> "yes" | "no": the details query gave a pool
    fetched,    \* history: chain -> <<n>>, the records its swap fetch returned
    page0,      \* history: chain -> how the first swap page of its fetch
                \*   ended: "failed" | "empty" | "records"
    raised,     \* history: chain -> an exception reached the catch block
    swapReqs,   \* history: chain -> swap page requests issued for it
    wrote,      \* history: the calls of writeFileSync: TRUE, or FALSE when
                \*   the file system refused (mkdirSync or writeFileSync threw)
    swapsIn,    \* swaps, the argument of calculateVolumeAndFees
    apc,        \* the aggregation: "none" | "daily" | "weekly" | "done"
    ai,         \* the index of the loop in progress
    dailyData,  \* dailyData: the daily buckets, in the order of their creation
    totalVolume,\* totalVolume
    weekly,     \* weekly: the weekly buckets, in the order of their creation
    weeklyData  \* weeklyData: what aggregateWeekly returned

limVars == <<limit, running, queue, wake, pc, arrived, enq, relOrder, started>>
grVars == <<req, trace>>
fetchVars == <<fpc, allSwaps, skip, emptyCount, chunk, idx, slotSkip, results,
               doneOrder, outstanding, stopAt, failedPages, issuedLog, begun>>
outVars == <<unitOut, runOut>>
mainVars == <<mpc, cpc, poolOf, progress, cres, output, tally, reason, found,
              fetched, page0, raised, swapReqs, wrote>>
aggVars == <<swapsIn, apc, ai, dailyData, totalVolume, weekly, weeklyData>>

vars == <<limVars, grVars, fetchVars, outVars, mainVars, aggVars>>

----------------------------------------------------------------------------
(* Bounds of the model.                                                    *)

\* callers of run in SpecLim
NCallers == 3
\* the limits SpecLim tries: 1..MaxLimit
MaxLimit == 2
\* the values of the retries argument SpecGR tries: 0..MaxRetries
MaxRetries == 2
\* records of a full page (first: 1000 in POOL_SWAPS_QUERY, and the 1000 the
\* code compares lengths with), scaled down
PAGE_SIZE == 2
\* requests of one wave (CHUNK_SIZE = 50 in the source), scaled down
CHUNK_SIZE == 3
\* waves of one fetch (chunk < 10 in the source), scaled down
MAX_CHUNKS == 2
\* the limiter's limit in a fetch (MAX_CONCURRENT_BATCHES = 10 in the
\* source), scaled down
MAX_CONCURRENT_BATCHES == 2
\* SpecMain tries 0..MaxChains configured chains
MaxChains == 2
\* the records the waves of a swap fetch add to a full first page in
\* SpecMain: none or MaxSwaps
MaxSwaps == 2
\* the swaps given to the aggregation in SpecAgg: 1..MaxLen
MaxLen == 3
\* significant bits of a number (53 in a JavaScript number), scaled down
MANT_BITS == 3

None == "none"

\* No fetchPoolSwapsSuperFast call is in progress (SpecLim, SpecGR).
NoFetch ==
    /\ fpc = "none"
    /\ allSwaps = <<>>
    /\ skip = 0
    /\ emptyCount = 0
    /\ chunk = 0
    /\ idx = 0
    /\ slotSkip = <<>>
    /\ results = <<>>
    /\ doneOrder = <<>>
    /\ outstanding = {}
    /\ stopAt = <<>>
    /\ failedPages = {}
    /\ issuedLog = <<>>
    /\ begun = <<>>

\* No outcome of a run call is recorded (SpecGR, SpecFetch, SpecMain).
NoOutcome ==
    /\ unitOut = <<>>
    /\ runOut = <<>>

\* main is not running (SpecLim, SpecGR, SpecFetch).
NoMain ==
    /\ mpc = "none"
    /\ cpc = <<>>
    /\ poolOf = <<>>
    /\ progress = [total |-> 0, completed |-> 0, successful |-> 0, failed |-> 0]
    /\ cres = <<>>
    /\ output = [chains |-> <<>>, poolMetadata |-> <<>>, lastUpdated |-> None]
    /\ tally = <<>>
    /\ reason = <<>>
    /\ found = <<>>
    /\ fetched = <<>>
    /\ page0 = <<>>
    /\ raised = <<>>
    /\ swapReqs = <<>>
    /\ wrote = <<>>

\* No aggregation is in progress (all but SpecAgg).
NoAgg ==
    /\ swapsIn = <<>>
    /\ apc = "none"
    /\ ai = 0
    /\ dailyData = <<>>
    /\ totalVolume = 0
    /\ weekly = <<>>
    /\ weeklyData = <<>>

----------------------------------------------------------------------------
(* ConcurrencyLimiter                                                      *)

Callers == DOMAIN pc

\* constructor(limit): running = 0, queue = []
LimiterInit(l) ==
    /\ limit = l
    /\ running = 0
    /\ queue = <<>>
    /\ wake = <<>>
    /\ arrived = <<>>
    /\ enq = <<>>
    /\ relOrder = <<>>
    /\ started = <<>>

\* A bug the while loop guards against: the limit is tested on entry only,
\* a resumed waiter goes on without testing it again.
BlockedOnEntryOnly(resumed) == ~resumed /\ running >= limit

\* A bug: the test is off by one (running > limit).
BlockedOffByOne(resumed) == running > limit

\* while (this.running >= this.limit): tested on entry and again by every
\* resumed waiter.
Blocked(resumed) == running >= limit

\* A bug: the newest waiter is taken (pop) instead of the oldest (shift).
PopWaiter(q) == <<q[Len(q)], SubSeq(q, 1, Len(q) - 1)>>

\* this.queue.shift(): the oldest waiter and the rest.
ShiftWaiter(q) == <<Head(q), Tail(q)>>

\* A bug: running is incremented before the loop, so a suspended caller is
\* counted too.
AcquireCountsWaiter(p, resumed) ==
    IF Blocked(resumed)
    THEN /\ queue' = Append(queue, p)
         /\ enq' = Append(enq, p)
         /\ pc' = [pc EXCEPT ![p] = "waiting"]
         /\ running' = IF resumed THEN running ELSE running + 1
         /\ UNCHANGED started
    ELSE /\ running' = IF resumed THEN running ELSE running + 1
         /\ started' = Append(started, p)
         /\ pc' = [pc EXCEPT ![p] = "running"]
         /\ UNCHANGED <<queue, enq>>

\* The loop test of run, for caller p: suspend on a new promise whose resolver
\* is pushed, or take a slot and call fn.
Acquire(p, resumed) ==
    IF Blocked(resumed)
    THEN /\ queue' = Append(queue, p)
         /\ enq' = Append(enq, p)
         /\ pc' = [pc EXCEPT ![p] = "waiting"]
         /\ UNCHANGED <<running, started>>
    ELSE /\ running' = running + 1
         /\ started' = Append(started, p)
         /\ pc' = [pc EXCEPT ![p] = "running"]
         /\ UNCHANGED <<queue, enq>>

\* A bug: a waiter is resolved only when the last running unit finishes.
ReleaseWhenIdle(p) ==
    /\ running' = running - 1
    /\ IF queue # <<>> /\ running = 1
       THEN /\ queue' = Tail(queue)
            /\ wake' = Append(wake, Head(queue))
            /\ relOrder' = Append(relOrder, Head(queue))
            /\ pc' = [pc EXCEPT ![p] = "done", ![Head(queue)] = "released"]
       ELSE /\ pc' = [pc EXCEPT ![p] = "done"]
            /\ UNCHANGED <<queue, wake, relOrder>>

\* A bug: the finally block frees the slot and resolves nobody.
ReleaseNoResolve(p) ==
    /\ running' = running - 1
    /\ pc' = [pc EXCEPT ![p] = "done"]
    /\ UNCHANGED <<queue, wake, relOrder>>

\* finally { this.running--; resolve = this.queue.shift(); if (resolve) resolve() }
\* Resolving the promise queues the waiter's continuation; it runs later.
Release(p) ==
    /\ running' = running - 1
    /\ IF queue # <<>>
       THEN LET s == ShiftWaiter(queue) IN
            /\ queue' = s[2]
            /\ wake' = Append(wake, s[1])
            /\ relOrder' = Append(relOrder, s[1])
            /\ pc' = [pc EXCEPT ![p] = "done", ![s[1]] = "released"]
       ELSE /\ pc' = [pc EXCEPT ![p] = "done"]
            /\ UNCHANGED <<queue, wake, relOrder>>

\* A caller calls run(fn). The call can come from any job, also from one
\* that runs after a resolver was called and before the resolved waiter's
\* continuation (a job queued earlier than that continuation).
Call(p) ==
    /\ pc[p] = "idle"
    /\ arrived' = Append(arrived, p)
    /\ Acquire(p, FALSE)
    /\ UNCHANGED <<limit, wake, relOrder, grVars, fetchVars, outVars, mainVars,
                   aggVars>>

\* The continuation of the oldest resolved waiter runs: back to the loop test.
Resume ==
    /\ wake # <<>>
    /\ wake' = Tail(wake)
    /\ Acquire(Head(wake), TRUE)
    /\ UNCHANGED <<limit, arrived, relOrder, grVars, fetchVars, outVars,
                   mainVars, aggVars>>

\* A bug: no finally block; the slot is given back only when fn returns.
RunSettlesNoFinally(p, r) ==
    /\ runOut' = [runOut EXCEPT ![p] = r]
    /\ IF r = "ok"
       THEN Release(p)
       ELSE /\ pc' = [pc EXCEPT ![p] = "done"]
            /\ UNCHANGED <<running, queue, wake, relOrder>>

\* try { return await fn() } finally { ... }: the run call settles as fn
\* did, after the finally block has run.
RunSettles(p, r) ==
    /\ runOut' = [runOut EXCEPT ![p] = r]
    /\ Release(p)

\* The unit of caller p settles: it returned (r = "ok") or it threw.
Finish(p, r) ==
    /\ pc[p] = "running"
    /\ unitOut' = [unitOut EXCEPT ![p] = r]
    /\ RunSettles(p, r)
    /\ UNCHANGED <<limit, arrived, enq, started, grVars, fetchVars, mainVars,
                   aggVars>>

InitLim ==
    /\ pc = [p \in 1..NCallers |-> "idle"]
    /\ \E l \in 1..MaxLimit : LimiterInit(l)
    /\ req = <<>>
    /\ trace = <<>>
    /\ NoFetch
    /\ unitOut = [p \in 1..NCallers |-> None]
    /\ runOut = [p \in 1..NCallers |-> None]
    /\ NoMain
    /\ NoAgg

NextLim ==
    \/ \E p \in Callers : Call(p)
    \/ Resume
    \/ \E p \in Callers, r \in {"ok", "threw"} : Finish(p, r)

\* The continuation of a resolved waiter is a queued job and runs; a unit
\* that was started settles (the callers' units each eventually complete).
\* Nothing obliges a caller to call run.
FairLim ==
    /\ WF_vars(Resume)
    /\ \A p \in 1..NCallers : WF_vars(\E r \in {"ok", "threw"} : Finish(p, r))

SpecLimFair == InitLim /\ [][NextLim]_vars /\ FairLim

SpecLim == InitLim /\ [][NextLim]_vars

----------------------------------------------------------------------------
(* graphRequest                                                            *)

\* setTimeout(resolve, 3000) after a 'bad indexers' error
BAD_INDEXERS_WAIT == 3000
\* setTimeout(resolve, 2000) in the catch block
RETRY_WAIT == 2000
\* retries = 2, the default every caller in the file uses
DEFAULT_RETRIES == 2

\* What the server can put in data for a page query: no data, data without
\* a swaps list, or a swaps list of some length up to first: 1000.
PageLens == {0, 1, PAGE_SIZE}
ServerData ==
    {[d |-> "null", n |-> 0], [d |-> "noswaps", n |-> 0]}
    \cup [d : {"swaps"}, n : PageLens]

\* What res.json() can give: it throws (no valid JSON), a body with errors
\* whose text has or has not 'bad indexers', or a body without errors.
JsonOutcomes ==
    {[kind |-> "invalid"]}
    \cup [kind : {"errors"}, text : {"bad indexers", "other"}]
    \cup [kind : {"data"}, data : ServerData]

\* A bug: no errors payload is taken for a transient one.
IsTransientNever(text) == FALSE

\* errorMsg.includes('bad indexers')
IsTransient(text) == text = "bad indexers"

\* graphRequest(url, query, variables, retries): i = 0, fetch is sent.
GRStart(args, r) ==
    [args |-> args, retries |-> r, i |-> 0, phase |-> "fetch", ms |-> 0,
     out |-> None]

\* A bug: the catch block gives up one attempt early.
LastAttemptEarly(st) == st.i + 1 >= st.retries

\* if (i === retries) of the catch block
LastAttempt(st) == st.i = st.retries

\* A bug: the catch block waits after the last attempt too.
GRCatchAlwaysWaits(st, err) == [st EXCEPT !.phase = "sleep", !.ms = RETRY_WAIT]

\* A bug: the catch block rethrows the first failure.
GRCatchNoRetry(st, err) == [st EXCEPT !.phase = "threw", !.out = err]

\* catch (error) { if (i === retries) throw error; await sleep(2000) }
GRCatch(st, err) ==
    IF LastAttempt(st)
    THEN [st EXCEPT !.phase = "threw", !.out = err]
    ELSE [st EXCEPT !.phase = "sleep", !.ms = RETRY_WAIT]

\* await fetch(...) settles: a response, or a transport failure (caught).
GROnFetch(st, ok) ==
    IF ok
    THEN [st EXCEPT !.phase = "json"]
    ELSE GRCatch(st, [kind |-> "transport", text |-> None, at |-> st.i])

\* await res.json() settles. The throw of line 119 is inside the try, so the
\* catch block of line 122 receives it like any other exception.
GROnJson(st, js) ==
    CASE js.kind = "invalid" ->
            GRCatch(st, [kind |-> "parse", text |-> None, at |-> st.i])
      [] js.kind = "errors" ->
            IF IsTransient(js.text) /\ st.i < st.retries
            THEN [st EXCEPT !.phase = "sleep", !.ms = BAD_INDEXERS_WAIT]
            ELSE GRCatch(st, [kind |-> "graphql", text |-> js.text, at |-> st.i])
      [] js.kind = "data" ->
            [st EXCEPT !.phase = "returned", !.out = js.data]

\* The backoff timer fires: continue / end of the loop body, i++, and the
\* loop test i <= retries; past it the function ends without a value.
GROnTimer(st) ==
    IF st.i + 1 <= st.retries
    THEN [st EXCEPT !.i = @ + 1, !.phase = "fetch", !.ms = 0]
    ELSE [st EXCEPT !.i = @ + 1, !.phase = "returned", !.ms = 0, !.out = [d |-> "undefined", n |-> 0]]

GRSettled(st) == st.phase \in {"returned", "threw"}

(* SpecGR: one call, slot 0, with its history.                             *)

SendEvent(st) == [e |-> "send", i |-> st.i, args |-> st.args]
WaitEvent(st) == [e |-> "wait", i |-> st.i, ms |-> st.ms]

\* the events a step to state st adds after the response event
AfterEvents(st) ==
    CASE st.phase = "sleep" -> <<WaitEvent(st)>>
      [] st.phase = "fetch" -> <<SendEvent(st)>>
      [] OTHER -> <<>>

GRFetchSettles(ok) ==
    /\ req[0].phase = "fetch"
    /\ LET st == GROnFetch(req[0], ok) IN
       /\ req' = [req EXCEPT ![0] = st]
       /\ trace' = trace
            \o (IF ok THEN <<>>
                ELSE <<[e |-> "resp", i |-> req[0].i, kind |-> "transport"]>>)
            \o AfterEvents(st)
    /\ UNCHANGED <<limVars, fetchVars, outVars, mainVars, aggVars>>

GRJsonSettles(js) ==
    /\ req[0].phase = "json"
    /\ LET st == GROnJson(req[0], js) IN
       /\ req' = [req EXCEPT ![0] = st]
       /\ trace' = trace
            \o <<[e |-> "resp", i |-> req[0].i,
                  kind |-> IF js.kind = "errors" THEN js.text ELSE js.kind,
                  data |-> IF js.kind = "data" THEN js.data ELSE None]>>
            \o AfterEvents(st)
    /\ UNCHANGED <<limVars, fetchVars, outVars, mainVars, aggVars>>

GRTimerFires ==
    /\ req[0].phase = "sleep"
    /\ LET st == GROnTimer(req[0]) IN
       /\ req' = [req EXCEPT ![0] = st]
       /\ trace' = trace \o AfterEvents(st)
    /\ UNCHANGED <<limVars, fetchVars, outVars, mainVars, aggVars>>

InitGR ==
    /\ pc = <<>>
    /\ LimiterInit(1)
    /\ \E a \in {"PoolDetails", "PoolSwaps"}, r \in 0..MaxRetries :
          /\ req = [s \in {0} |-> GRStart(a, r)]
          /\ trace = <<SendEvent(GRStart(a, r))>>
    /\ NoFetch
    /\ NoOutcome
    /\ NoMain
    /\ NoAgg

NextGR ==
    \/ \E ok \in BOOLEAN : GRFetchSettles(ok)
    \/ \E js \in JsonOutcomes : GRJsonSettles(js)
    \/ GRTimerFires

SpecGR == InitGR /\ [][NextGR]_vars

----------------------------------------------------------------------------
(* fetchBatch and fetchPoolSwapsSuperFast                                  *)

\* if (emptyCount >= 5)
EMPTY_STOP == 5
\* swap.pool?.feeTier || '3000'
DEFAULT_FEE_TIER == "3000"

Slots == 1..CHUNK_SIZE

\* no graphRequest call in the slot
GRIdle == [args |-> 0, retries |-> 0, i |-> 0, phase |-> "idle", ms |-> 0,
           out |-> None]

\* a chunkPromise that has not settled
NoResult == [settled |-> FALSE, rejected |-> FALSE, failed |-> FALSE,
             swaps |-> <<>>, hasMore |-> FALSE]

\* { swaps: [], hasMore: false }; failed tells the result of the catch block
\* from the result of an empty page
EmptyResult(failed) ==
    [settled |-> TRUE, rejected |-> FALSE, failed |-> failed,
     swaps |-> <<>>, hasMore |-> FALSE]

\* the n records the server holds at offset o .. o + n - 1, oldest first
PageRecs(o, n) == [k \in 1..n |-> <<o, k>>]

\* A bug: hasMore is true for every page with records.
PageResultAlwaysMore(o, data) ==
    IF data.d \in {"null", "undefined"} THEN EmptyResult(TRUE)
    ELSE IF data.d = "noswaps" \/ data.n = 0 THEN EmptyResult(FALSE)
    ELSE [settled |-> TRUE, rejected |-> FALSE, failed |-> FALSE,
          swaps |-> PageRecs(o, data.n), hasMore |-> TRUE]

\* The try block of fetchBatch once graphRequest has returned data; reading
\* data.swaps of a missing data throws a TypeError.
PageResult(o, data) ==
    IF data.d \in {"null", "undefined"} THEN EmptyResult(TRUE)
    ELSE IF data.d = "noswaps" \/ data.n = 0 THEN EmptyResult(FALSE)
    ELSE [settled |-> TRUE, rejected |-> FALSE, failed |-> FALSE,
          swaps |-> PageRecs(o, data.n), hasMore |-> (data.n = PAGE_SIZE)]

\* A bug: the result of the catch block lets the result loop go on.
FetchBatchFailedHasMore(o, st) ==
    IF st.phase = "threw" \/ st.out.d \in {"null", "undefined"}
    THEN [EmptyResult(TRUE) EXCEPT !.hasMore = TRUE]
    ELSE PageResult(o, st.out)

\* A bug: fetchBatch without its catch block; the failure rejects the promise.
FetchBatchNoCatch(o, st) ==
    IF st.phase = "threw" \/ st.out.d \in {"null", "undefined"}
    THEN [EmptyResult(TRUE) EXCEPT !.rejected = TRUE]
    ELSE PageResult(o, st.out)

\* fetchBatch(skipValue) once its graphRequest call has settled in st
FetchBatchResult(o, st) ==
    IF st.phase = "threw" THEN EmptyResult(TRUE) ELSE PageResult(o, st.out)

\* A bug: the results are taken in the order the requests completed.
WaveResultsByCompletion == [k \in 1..Len(doneOrder) |-> results[doneOrder[k]]]

\* results = await Promise.all(chunkPromises): in the order of chunkPromises
WaveResults == [k \in Slots |-> results[k]]

\* A bug: the wave is examined when no request is in flight, the requests
\* the limiter holds back not being waited for.
NoneInFlight ==
    /\ \A s \in Slots : pc[s] # "running"
    /\ \E s \in Slots : results[s].settled

\* A bug: the wave is examined as soon as one of its promises has settled.
AnySettled == \E s \in Slots : results[s].settled

\* await Promise.all(chunkPromises) goes on when every promise has settled
AllSettled == \A s \in Slots : results[s].settled

\* A bug: the test of hasMore is missing, only empty pages stop the loop.
StopsAtEmptyOnly(r, ec) == ec >= EMPTY_STOP

\* if (emptyCount >= 5) return allSwaps; if (!result.hasMore) return allSwaps
StopsAt(r, ec) == ec >= EMPTY_STOP \/ ~r.hasMore

\* for (const result of results) { ... }: from result k on, with allSwaps =
\* acc and emptyCount = ec; stop is the index at which the loop returned, 0
\* when it ran to the end.
RECURSIVE ProcessResults(_, _, _, _)
ProcessResults(rs, k, acc, ec) ==
    LET r == rs[k]
        acc2 == IF Len(r.swaps) > 0 THEN acc \o r.swaps ELSE acc
        ec2 == IF Len(r.swaps) > 0 THEN 0 ELSE ec + 1
    IN  IF StopsAt(r, ec2)
        THEN [all |-> acc2, ec |-> ec2, stop |-> k]
        ELSE IF k = Len(rs)
             THEN [all |-> acc2, ec |-> ec2, stop |-> 0]
             ELSE ProcessResults(rs, k + 1, acc2, ec2)

\* const first = await fetchBatch(0) settles: lines 163-175
FirstPage(st) ==
    LET first == FetchBatchResult(0, st) IN
    /\ req' = [req EXCEPT ![0] = GRIdle]
    /\ results' = [results EXCEPT ![0] = first]
    /\ failedPages' = IF first.failed THEN failedPages \cup {0} ELSE failedPages
    /\ IF first.rejected
       THEN fpc' = "threw" /\ UNCHANGED <<allSwaps, skip, emptyCount>>
       ELSE IF Len(first.swaps) = 0
       THEN fpc' = "returned" /\ allSwaps' = <<>> /\ UNCHANGED <<skip, emptyCount>>
       ELSE IF ~first.hasMore
       THEN fpc' = "returned" /\ allSwaps' = first.swaps
            /\ UNCHANGED <<skip, emptyCount>>
       ELSE fpc' = "issuing" /\ allSwaps' = first.swaps
            /\ skip' = PAGE_SIZE /\ emptyCount' = 0
    /\ UNCHANGED <<limVars, trace, chunk, idx, slotSkip, doneOrder,
                   outstanding, stopAt, issuedLog, begun>>

\* The request of slot s settles: fetchBatch returns, the finally block of
\* limiter.run frees the slot, the chunkPromise settles. A rejected promise
\* rejects Promise.all at once.
PageDone(s, st) ==
    LET r == FetchBatchResult(slotSkip[s], st) IN
    /\ req' = [req EXCEPT ![s] = GRIdle]
    /\ results' = [results EXCEPT ![s] = r]
    /\ doneOrder' = Append(doneOrder, s)
    /\ outstanding' = outstanding \ {slotSkip[s]}
    /\ failedPages' = IF r.failed THEN failedPages \cup {slotSkip[s]}
                      ELSE failedPages
    /\ Release(s)
    /\ fpc' = IF r.rejected THEN "threw" ELSE fpc
    /\ UNCHANGED <<limit, arrived, enq, started, trace, allSwaps, skip,
                   emptyCount, chunk, idx, slotSkip, stopAt, issuedLog, begun>>

\* One step of the graphRequest call of slot s to state st.
Advance(s, st) ==
    IF ~GRSettled(st)
    THEN /\ req' = [req EXCEPT ![s] = st]
         /\ UNCHANGED <<limVars, trace, fetchVars>>
    ELSE IF s = 0 THEN FirstPage(st) ELSE PageDone(s, st)

\* slot s has a graphRequest call in progress
Active(s) ==
    \/ s = 0 /\ fpc = "first"
    \/ s > 0 /\ fpc = "wave" /\ pc[s] = "running"

PageFetchSettles(s, ok) ==
    /\ Active(s)
    /\ req[s].phase = "fetch"
    /\ Advance(s, GROnFetch(req[s], ok))
    /\ UNCHANGED <<outVars, mainVars, aggVars>>

PageJsonSettles(s, js) ==
    /\ Active(s)
    /\ req[s].phase = "json"
    /\ Advance(s, GROnJson(req[s], js))
    /\ UNCHANGED <<outVars, mainVars, aggVars>>

PageTimerFires(s) ==
    /\ Active(s)
    /\ req[s].phase = "sleep"
    /\ Advance(s, GROnTimer(req[s]))
    /\ UNCHANGED <<outVars, mainVars, aggVars>>

\* One turn of the inner loop (lines 182-189): limiter.run(() =>
\* fetchBatch(currentSkip)) runs up to its first await. The loop is
\* synchronous: nothing else runs until the wave is issued.
IssueRequest ==
    /\ fpc = "issuing"
    /\ LET s == idx + 1 IN
       /\ slotSkip' = [slotSkip EXCEPT ![s] = skip]
       /\ skip' = skip + PAGE_SIZE
       /\ outstanding' = outstanding \cup {skip}
       /\ arrived' = Append(arrived, s)
       /\ Acquire(s, FALSE)
       /\ req' = IF Blocked(FALSE) THEN req
                 ELSE [req EXCEPT ![s] = GRStart(skip, DEFAULT_RETRIES)]
       /\ issuedLog' = Append(issuedLog, skip)
       /\ begun' = IF Blocked(FALSE) THEN begun ELSE Append(begun, skip)
       /\ idx' = idx + 1
       /\ fpc' = IF idx + 1 = CHUNK_SIZE THEN "wave" ELSE "issuing"
    /\ UNCHANGED <<limit, wake, relOrder, trace, allSwaps, emptyCount, chunk,
                   results, doneOrder, stopAt, failedPages>>
    /\ UNCHANGED <<outVars, mainVars, aggVars>>

\* The continuation of a resolved waiter runs: the loop test again, then fn.
ResumePage ==
    /\ fpc = "wave"
    /\ wake # <<>>
    /\ LET s == Head(wake) IN
       /\ wake' = Tail(wake)
       /\ Acquire(s, TRUE)
       /\ req' = IF Blocked(TRUE) THEN req
                 ELSE [req EXCEPT ![s] = GRStart(slotSkip[s], DEFAULT_RETRIES)]
       /\ begun' = IF Blocked(TRUE) THEN begun ELSE Append(begun, slotSkip[s])
    /\ UNCHANGED <<limit, arrived, relOrder, trace, fpc, allSwaps, skip,
                   emptyCount, chunk, idx, slotSkip, results, doneOrder,
                   outstanding, stopAt, failedPages, issuedLog>>
    /\ UNCHANGED <<outVars, mainVars, aggVars>>

\* A bug: one wave too many (chunk <= 10).
MoreChunksOneTooMany(c) == c + 1 <= MAX_CHUNKS

\* chunk++ and the test chunk < 10 of the outer loop, after wave c
MoreChunks(c) == c + 1 < MAX_CHUNKS

\* Promise.all has settled: the result loop (lines 193-208), then the next
\* wave, or return allSwaps after the last one (line 211).
Evaluate ==
    /\ fpc = "wave"
    /\ AllSettled
    /\ LET out == ProcessResults(WaveResults, 1, allSwaps, emptyCount) IN
       /\ allSwaps' = out.all
       /\ emptyCount' = out.ec
       /\ IF out.stop > 0
          THEN /\ fpc' = "returned"
               /\ stopAt' = <<slotSkip[out.stop]>>
               /\ UNCHANGED <<chunk, idx, results, doneOrder, pc>>
          ELSE IF MoreChunks(chunk)
          THEN /\ fpc' = "issuing"
               /\ chunk' = chunk + 1
               /\ idx' = 0
               /\ results' = [s \in 0..CHUNK_SIZE |->
                                IF s = 0 THEN results[0] ELSE NoResult]
               /\ doneOrder' = <<>>
               /\ pc' = [s \in Slots |-> "idle"]
               /\ UNCHANGED stopAt
          ELSE /\ fpc' = "returned"
               /\ chunk' = chunk + 1
               /\ UNCHANGED <<idx, results, doneOrder, pc, stopAt>>
    /\ UNCHANGED <<limit, running, queue, wake, arrived, enq, relOrder, started,
                   grVars, skip, slotSkip, outstanding, failedPages, issuedLog,
                   begun>>
    /\ UNCHANGED <<outVars, mainVars, aggVars>>

InitFetch ==
    /\ pc = [s \in Slots |-> "idle"]
    /\ LimiterInit(MAX_CONCURRENT_BATCHES)
    /\ req = [s \in 0..CHUNK_SIZE |->
                IF s = 0 THEN GRStart(0, DEFAULT_RETRIES) ELSE GRIdle]
    /\ trace = <<>>
    /\ fpc = "first"
    /\ allSwaps = <<>>
    /\ skip = 0
    /\ emptyCount = 0
    /\ chunk = 0
    /\ idx = 0
    /\ slotSkip = [s \in Slots |-> 0]
    /\ results = [s \in 0..CHUNK_SIZE |-> NoResult]
    /\ doneOrder = <<>>
    /\ outstanding = {}
    /\ stopAt = <<>>
    /\ failedPages = {}
    /\ issuedLog = <<>>
    /\ begun = <<0>>
    /\ NoOutcome
    /\ NoMain
    /\ NoAgg

NextFetch ==
    \/ \E s \in 0..CHUNK_SIZE, ok \in BOOLEAN : PageFetchSettles(s, ok)
    \/ \E s \in 0..CHUNK_SIZE, js \in JsonOutcomes : PageJsonSettles(s, js)
    \/ \E s \in 0..CHUNK_SIZE : PageTimerFires(s)
    \/ IssueRequest
    \/ ResumePage
    \/ Evaluate

SpecFetch == InitFetch /\ [][NextFetch]_vars

----------------------------------------------------------------------------
(* fetchPoolDetails and main                                               *)

\* the chain names: CHAINS has one entry per V4_SUBGRAPH_URL_<name> variable
\* of the environment, so the names are distinct
Chains == DOMAIN cpc

\* What the details query can give as json.data: null, a body whose pool is
\* null, a pool, or a pool whose token0 is null.
PoolData == [d : {"null", "nopool", "pool", "badpool"}, n : {0}]

DetailsOutcomes ==
    {[kind |-> "invalid"]}
    \cup [kind : {"errors"}, text : {"bad indexers", "other"}]
    \cup [kind : {"data"}, data : PoolData]

\* The states in which the graphRequest call of the first swap page can
\* settle: it threw after its retries, or it returned what the server sent.
FirstPageStates ==
    {[GRStart(0, DEFAULT_RETRIES) EXCEPT
        !.i = DEFAULT_RETRIES, !.phase = "threw",
        !.out = [kind |-> "transport", text |-> None, at |-> DEFAULT_RETRIES]]}
    \cup {[GRStart(0, DEFAULT_RETRIES) EXCEPT !.phase = "returned", !.out = d] :
            d \in ServerData}

\* What a swap fetch meets: the settled request of its first page, the
\* records the waves add when that page is full (none or some), and whether
\* calculateVolumeAndFees accepts the records (toISOString throws on a
\* record whose timestamp is not a number).
SwapsOutcomes ==
    [first : FirstPageStates, more : {0, MaxSwaps}, aggOk : BOOLEAN]

\* A bug: the failure of the first page is rethrown by fetchBatch and
\* rejects the fetch.
SwapsFetchRethrows(sw) ==
    LET first == FetchBatchResult(0, sw.first) IN
    IF first.failed THEN [threw |-> TRUE, n |-> 0, page0 |-> "failed"]
    ELSE IF Len(first.swaps) = 0
    THEN [threw |-> FALSE, n |-> 0, page0 |-> "empty"]
    ELSE [threw |-> FALSE, page0 |-> "records",
          n |-> IF first.hasMore THEN Len(first.swaps) + sw.more
                ELSE Len(first.swaps)]

\* fetchPoolSwapsSuperFast seen from main (lines 163-172, 211): it rejects
\* only if fetchBatch does; an empty first page gives []; a short first
\* page is returned as it is; a full one is followed by the records of the
\* waves.
SwapsFetch(sw) ==
    LET first == FetchBatchResult(0, sw.first) IN
    IF first.rejected THEN [threw |-> TRUE, n |-> 0, page0 |-> "failed"]
    ELSE IF Len(first.swaps) = 0
    THEN [threw |-> FALSE, n |-> 0,
          page0 |-> IF first.failed THEN "failed" ELSE "empty"]
    ELSE [threw |-> FALSE, page0 |-> "records",
          n |-> IF first.hasMore THEN Len(first.swaps) + sw.more
                ELSE Len(first.swaps)]

\* fetchPoolDetails once graphRequest has settled in state st: data.pool of
\* a null data throws, a missing pool gives null, else the pool.
FetchPoolDetails(st) ==
    IF st.phase = "threw" \/ st.out.d \in {"null", "undefined"} THEN "throw"
    ELSE IF st.out.d = "nopool" THEN "null"
    ELSE st.out.d

\* A bug: the missing pool is not tested.
PoolMissingNever(p) == FALSE

\* if (!pool)
PoolMissing(p) == p = "null"

\* new Date().toISOString() when main starts
Now == {"2026-01-05T10:00:00.000Z", "2026-01-06T23:59:59.999Z"}

\* what a chain task resolves with when it failed
FailedResult == [settled |-> TRUE, success |-> FALSE, weeklyData |-> 0,
                 poolMetadata |-> 0]
\* a chainPromise that has not settled
NoChainResult == [settled |-> FALSE, success |-> FALSE, weeklyData |-> 0,
                  poolMetadata |-> 0]

\* A bug: a failure of one chain ends the tasks of all the chains.
MarkFailedAbortsAll(c, why) ==
    /\ progress' = [progress EXCEPT !.completed = @ + 1, !.failed = @ + 1]
    /\ tally' = [tally EXCEPT ![c].completed = @ + 1, ![c].failed = @ + 1]
    /\ reason' = [reason EXCEPT ![c] = why]
    /\ cres' = [d \in Chains |-> IF cpc[d] = "done" THEN cres[d]
                                 ELSE FailedResult]
    /\ cpc' = [d \in Chains |-> "done"]

\* A bug: a failure is counted as failed and not as completed.
MarkFailedNotCompleted(c, why) ==
    /\ progress' = [progress EXCEPT !.failed = @ + 1]
    /\ tally' = [tally EXCEPT ![c].failed = @ + 1]
    /\ reason' = [reason EXCEPT ![c] = why]
    /\ cres' = [cres EXCEPT ![c] = FailedResult]
    /\ cpc' = [cpc EXCEPT ![c] = "done"]

\* progress.completed++; progress.failed++; the message is logged and the
\* task resolves with success: false (the two early exits and the catch).
MarkFailed(c, why) ==
    /\ progress' = [progress EXCEPT !.completed = @ + 1, !.failed = @ + 1]
    /\ tally' = [tally EXCEPT ![c].completed = @ + 1, ![c].failed = @ + 1]
    /\ reason' = [reason EXCEPT ![c] = why]
    /\ cres' = [cres EXCEPT ![c] = FailedResult]
    /\ cpc' = [cpc EXCEPT ![c] = "done"]

\* progress.completed++; progress.successful++; the task resolves with
\* success: true, its pool metadata and its weekly data. The weekly data
\* stands for what aggregateWeekly made of the n records, the metadata for
\* the pool of chain c.
MarkSuccess(c, n) ==
    /\ progress' = [progress EXCEPT !.completed = @ + 1, !.successful = @ + 1]
    /\ tally' = [tally EXCEPT ![c].completed = @ + 1, ![c].successful = @ + 1]
    /\ reason' = [reason EXCEPT ![c] = "ok"]
    /\ cres' = [cres EXCEPT ![c] = [settled |-> TRUE, success |-> TRUE,
                                    weeklyData |-> n, poolMetadata |-> c]]
    /\ cpc' = [cpc EXCEPT ![c] = "done"]

\* the graphRequest call of fetchPoolDetails is over
DetailsOver == [GRIdle EXCEPT !.args = "PoolDetails"]

\* The task of chain c resumes after await fetchPoolDetails(chain), whose
\* graphRequest settled in state st: the catch block, the early exit, or the
\* call of fetchPoolSwapsSuperFast, which sends the request of page 0 before
\* its first await.
DetailsDone(c, st) ==
    LET p == FetchPoolDetails(st) IN
    /\ req' = [req EXCEPT ![c] = DetailsOver]
    /\ found' = IF p = "throw" THEN found
                 ELSE [found EXCEPT ![c] = IF p = "null" THEN "no" ELSE "yes"]
    /\ IF p = "throw"
       THEN /\ raised' = [raised EXCEPT ![c] = TRUE]
            /\ MarkFailed(c, "exception")
            /\ UNCHANGED <<poolOf, swapReqs>>
       ELSE IF PoolMissing(p)
       THEN /\ MarkFailed(c, "Pool not found")
            /\ UNCHANGED <<poolOf, raised, swapReqs>>
       ELSE /\ poolOf' = [poolOf EXCEPT ![c] = p]
            /\ swapReqs' = [swapReqs EXCEPT ![c] = @ + 1]
            /\ cpc' = [cpc EXCEPT ![c] = "swaps"]
            /\ UNCHANGED <<progress, tally, reason, cres, raised>>
    /\ UNCHANGED <<mpc, output, fetched, page0, wrote>>

\* One step of the graphRequest call of fetchPoolDetails for chain c.
DetailsAdvance(c, st) ==
    /\ IF ~GRSettled(st)
       THEN /\ req' = [req EXCEPT ![c] = st]
            /\ UNCHANGED mainVars
       ELSE DetailsDone(c, st)
    /\ UNCHANGED <<limVars, trace, fetchVars, outVars, aggVars>>

DetailsFetchSettles(c, ok) ==
    /\ cpc[c] = "details"
    /\ req[c].phase = "fetch"
    /\ DetailsAdvance(c, GROnFetch(req[c], ok))

DetailsJsonSettles(c, js) ==
    /\ cpc[c] = "details"
    /\ req[c].phase = "json"
    /\ DetailsAdvance(c, GROnJson(req[c], js))

DetailsTimerFires(c) ==
    /\ cpc[c] = "details"
    /\ req[c].phase = "sleep"
    /\ DetailsAdvance(c, GROnTimer(req[c]))

\* The task of chain c resumes after await fetchPoolSwapsSuperFast with the
\* records sw: no record is the second early exit; an exception of the
\* aggregation, or of pool.token0.symbol on a pool without token0, goes to
\* the catch block; else the chain succeeded.
SwapsSettle(c, sw) ==
    /\ cpc[c] = "swaps"
    /\ LET swaps == SwapsFetch(sw) IN
       /\ page0' = [page0 EXCEPT ![c] = swaps.page0]
       /\ IF swaps.threw
          THEN /\ raised' = [raised EXCEPT ![c] = TRUE]
               /\ MarkFailed(c, "exception")
               /\ UNCHANGED fetched
          ELSE /\ fetched' = [fetched EXCEPT ![c] = <<swaps.n>>]
               /\ IF swaps.n = 0
                  THEN /\ MarkFailed(c, "No swaps in time range")
                       /\ UNCHANGED raised
                  ELSE IF ~sw.aggOk \/ poolOf[c] # "pool"
                  THEN /\ raised' = [raised EXCEPT ![c] = TRUE]
                       /\ MarkFailed(c, "exception")
                  ELSE /\ MarkSuccess(c, swaps.n)
                       /\ UNCHANGED raised
    /\ UNCHANGED <<limVars, grVars, fetchVars, outVars, aggVars, mpc, poolOf,
                   output, found, swapReqs, wrote>>

\* A bug: every result is written.
IsSuccessAlways(r) == TRUE

\* if (result.success)
IsSuccess(r) == r.success

\* A bug: main goes on when the first chain task has settled.
SomeChainSettled == \E c \in Chains : cpc[c] = "done"

\* A bug: main waits for a chain task to settle even when there is none.
AllSettledOfSome == Chains # {} /\ \A c \in Chains : cpc[c] = "done"

\* await Promise.all(chainPromises): no chain task rejects, so it resolves
\* when all of them have resolved (at once for no chain).
AllChainsSettled == \A c \in Chains : cpc[c] = "done"

\* Promise.all(chainPromises) has resolved: the forEach that fills output,
\* then mkdirSync and writeFileSync, in one synchronous stretch. fsOk is the
\* file system's answer: when it refuses, main rejects and main().catch
\* logs the fatal error and exits with code 1.
Assemble(fsOk) ==
    /\ mpc = "chains"
    /\ AllChainsSettled
    /\ LET ok == {c \in Chains : IsSuccess(cres[c])} IN
       output' = [output EXCEPT
                    !.chains = [c \in ok |-> cres[c].weeklyData],
                    !.poolMetadata = [c \in ok |-> cres[c].poolMetadata]]
    /\ wrote' = Append(wrote, fsOk)
    /\ mpc' = IF fsOk THEN "written" ELSE "fatal"
    /\ UNCHANGED <<limVars, grVars, fetchVars, outVars, aggVars, cpc, poolOf,
                   progress, cres, tally, reason, found, fetched, page0,
                   raised, swapReqs>>

\* main up to await Promise.all: CHAINS.map starts every chain task, and
\* each runs up to the send of its details query.
InitMain ==
    /\ pc = <<>>
    /\ LimiterInit(1)
    /\ trace = <<>>
    /\ NoFetch
    /\ NoOutcome
    /\ \E k \in 0..MaxChains :
          /\ cpc = [c \in 1..k |-> "details"]
          /\ req = [c \in 1..k |-> GRStart("PoolDetails", DEFAULT_RETRIES)]
          /\ poolOf = [c \in 1..k |-> None]
          /\ progress = [total |-> k, completed |-> 0, successful |-> 0,
                         failed |-> 0]
          /\ cres = [c \in 1..k |-> NoChainResult]
          /\ tally = [c \in 1..k |->
                        [completed |-> 0, successful |-> 0, failed |-> 0]]
          /\ reason = [c \in 1..k |-> None]
          /\ found = [c \in 1..k |-> None]
          /\ fetched = [c \in 1..k |-> <<>>]
          /\ page0 = [c \in 1..k |-> None]
          /\ raised = [c \in 1..k |-> FALSE]
          /\ swapReqs = [c \in 1..k |-> 0]
    /\ mpc = "chains"
    /\ \E t \in Now : output = [chains |-> <<>>, poolMetadata |-> <<>>,
                                lastUpdated |-> t]
    /\ wrote = <<>>
    /\ NoAgg

NextMain ==
    \/ \E c \in Chains, ok \in BOOLEAN : DetailsFetchSettles(c, ok)
    \/ \E c \in Chains, js \in DetailsOutcomes : DetailsJsonSettles(c, js)
    \/ \E c \in Chains : DetailsTimerFires(c)
    \/ \E c \in Chains, sw \in SwapsOutcomes : SwapsSettle(c, sw)
    \/ \E fsOk \in BOOLEAN : Assemble(fsOk)

SpecMain == InitMain /\ [][NextMain]_vars

\* one step of the task of chain c
ChainStep(c) ==
    /\ c \in Chains
    /\ \/ \E ok \in BOOLEAN : DetailsFetchSettles(c, ok)
       \/ \E js \in DetailsOutcomes : DetailsJsonSettles(c, js)
       \/ DetailsTimerFires(c)
       \/ \E sw \in SwapsOutcomes : SwapsSettle(c, sw)

\* Every network request responds or fails and every timer fires, so the
\* awaits of a chain task settle; the continuation of main after Promise.all
\* is a queued job and runs.
FairMain ==
    /\ \A c \in 1..MaxChains : WF_vars(ChainStep(c))
    /\ WF_vars(\E fsOk \in BOOLEAN : Assemble(fsOk))

SpecMainFair == InitMain /\ [][NextMain]_vars /\ FairMain

----------------------------------------------------------------------------
(* calculateVolumeAndFees, calculateTotalVolume and aggregateWeekly        *)

\* JavaScript numbers are binary floating-point: every result is rounded to
\* the nearest number with MANT_BITS significant bits, ties to even. The
\* model keeps volumes in USD and fees in millionths of a USD, as naturals.
RECURSIVE Pow2(_)
Pow2(n) == IF n = 0 THEN 1 ELSE 2 * Pow2(n - 1)

RECURSIVE UlpOf(_, _)
UlpOf(x, u) == IF x < Pow2(MANT_BITS) * u THEN u ELSE UlpOf(x, 2 * u)

Fl(x) ==
    LET u == UlpOf(x, 1)
        q == x \div u
        r == x % u
    IN  IF 2 * r > u \/ (2 * r = u /\ q % 2 = 1) THEN (q + 1) * u ELSE q * u

Abs(x) == IF x < 0 THEN 0 - x ELSE x

\* A bug: the accumulator is assigned, not added to.
Overwrite(acc, x) == x

\* acc += x
AddTo(acc, x) == Fl(acc + x)

\* The swaps of the model: the last second of Sunday 2025-01-05, the first
\* second and the noon of Monday 2025-01-06, and Wednesday 2025-01-08 08:00
\* (UTC); an amountUSD that is absent, "0", negative or positive; a pool
\* feeTier that is absent or "500".
Timestamps == {1736121599, 1736121600, 1736164800, 1736323200}

SwapKinds ==
    {[amountUSD |-> None, feeTier |-> "500"],
     [amountUSD |-> "0", feeTier |-> None],
     [amountUSD |-> "-7", feeTier |-> None],
     [amountUSD |-> "2", feeTier |-> "500"]}

SwapValues ==
    {[timestamp |-> t, amountUSD |-> k.amountUSD, feeTier |-> k.feeTier] :
        t \in Timestamps, k \in SwapKinds}

\* parseFloat of the amounts above
ParseFloat(s) ==
    CASE s = "0" -> 0
      [] s = "-7" -> 0 - 7
      [] s = "2" -> 2

\* parseInt of the fee tiers above
ParseInt(s) ==
    CASE s = "500" -> 500
      [] s = "3000" -> 3000

\* the day number of new Date(timestamp * 1000): days since 1970-01-01 UTC
DayOf(ts) == ts \div 86400

\* The UTC calendar date <<year, month, day>> of a day number: what
\* toISOString().split('T')[0] prints as YYYY-MM-DD.
CivilFromDays(z0) ==
    LET z == z0 + 719468
        era == z \div 146097
        doe == z - era * 146097
        yoe == (doe - doe \div 1460 + doe \div 36524 - doe \div 146096) \div 365
        doy == doe - (365 * yoe + yoe \div 4 - yoe \div 100)
        mp == (5 * doy + 2) \div 153
        d == doy - (153 * mp + 2) \div 5 + 1
        m == IF mp < 10 THEN mp + 3 ELSE mp - 9
        y == yoe + era * 400 + (IF m <= 2 THEN 1 ELSE 0)
    IN  <<y, m, d>>

\* date.toISOString().split('T')[0]
DateKey(ts) == CivilFromDays(DayOf(ts))

\* date.getUTCDay(): 0 is Sunday; 1970-01-01 was a Thursday
GetUTCDay(ts) == (DayOf(ts) + 4) % 7

\* A bug: a Sunday is put into the week that starts the day after.
MondayKeySundayForward(ts) ==
    CivilFromDays(DayOf(ts) + 1 - GetUTCDay(ts))

\* diff = (dayOfWeek === 0 ? -6 : 1) - dayOfWeek; setUTCDate(getUTCDate() +
\* diff) moves the date by diff days; the key is that date.
MondayKey(ts) ==
    LET dayOfWeek == GetUTCDay(ts)
        diff == (IF dayOfWeek = 0 THEN 0 - 6 ELSE 1) - dayOfWeek
    IN  CivilFromDays(DayOf(ts) + diff)

\* a.localeCompare(b) < 0 for two YYYY-MM-DD strings: the first differing
\* character decides, so the year, then the month, then the day
KeyLess(a, b) ==
    \/ a[1] < b[1]
    \/ a[1] = b[1] /\ a[2] < b[2]
    \/ a[1] = b[1] /\ a[2] = b[2] /\ a[3] < b[3]

\* the position of the property key in an object kept in insertion order,
\* 0 when the object has no such property
RECURSIVE IndexOfKey(_, _, _)
IndexOfKey(obj, key, n) ==
    IF n = 0 THEN 0
    ELSE IF obj[n].key = key THEN n
    ELSE IndexOfKey(obj, key, n - 1)

\* if (swap.amountUSD && swap.amountUSD !== '0') ... else continue
Skipped(swap) == swap.amountUSD = None \/ swap.amountUSD = "0"

\* A bug: the sign of the amount is kept.
VolumeOfSigned(swap) == ParseFloat(swap.amountUSD)

\* Math.abs(parseFloat(swap.amountUSD))
VolumeOf(swap) == Fl(Abs(ParseFloat(swap.amountUSD)))

\* A bug: the fee tier of the pool is ignored.
FeeTierOfDefault(swap) == ParseInt(DEFAULT_FEE_TIER)

\* parseInt(swap.pool?.feeTier || '3000')
FeeTierOf(swap) ==
    ParseInt(IF swap.feeTier # None THEN swap.feeTier ELSE DEFAULT_FEE_TIER)

\* feesUSD = volumeUSD * feeRate, in millionths of a USD
FeesOf(swap) == Fl(VolumeOf(swap) * FeeTierOf(swap))

\* A bug: a swap without amount is counted as a swap of 1 USD.
ContributionNoSkip(swap) ==
    IF Skipped(swap) THEN [volume |-> 1, fees |-> ParseInt(DEFAULT_FEE_TIER)]
    ELSE [volume |-> VolumeOf(swap), fees |-> FeesOf(swap)]

\* what one swap adds to its day: nothing when it is skipped
Contribution(swap) ==
    IF Skipped(swap) THEN [volume |-> 0, fees |-> 0]
    ELSE [volume |-> VolumeOf(swap), fees |-> FeesOf(swap)]

\* A bug: the amount is tested before the bucket is created.
CalcStepTestFirst(daily, swap) ==
    LET key == DateKey(swap.timestamp)
        dd == IF IndexOfKey(daily, key, Len(daily)) = 0
              THEN Append(daily, [key |-> key, timestamp |-> swap.timestamp,
                                  volume |-> 0, fees |-> 0])
              ELSE daily
        n == IndexOfKey(dd, key, Len(dd))
    IN  IF Skipped(swap) THEN daily
        ELSE [dd EXCEPT ![n].volume = AddTo(@, VolumeOf(swap)),
                        ![n].fees = AddTo(@, FeesOf(swap))]

\* One turn of the loop of calculateVolumeAndFees on the object daily: the
\* bucket of the swap's date is created when it is missing, with the swap's
\* timestamp, before the amount is looked at.
CalcStep(daily, swap) ==
    LET key == DateKey(swap.timestamp)
        dd == IF IndexOfKey(daily, key, Len(daily)) = 0
              THEN Append(daily, [key |-> key, timestamp |-> swap.timestamp,
                                  volume |-> 0, fees |-> 0])
              ELSE daily
        n == IndexOfKey(dd, key, Len(dd))
        c == Contribution(swap)
    IN  IF Skipped(swap) /\ c.volume = 0 /\ c.fees = 0 THEN dd
        ELSE [dd EXCEPT ![n].volume = AddTo(@, c.volume),
                        ![n].fees = AddTo(@, c.fees)]

\* dailyData.reduce((sum, day) => sum + day.volume, 0)
RECURSIVE calculateTotalVolume(_, _)
calculateTotalVolume(daily, n) ==
    IF n = 0 THEN 0 ELSE Fl(calculateTotalVolume(daily, n - 1) + daily[n].volume)

\* A bug: a day is added to its week only when it creates the week.
WeekStepFirstOnly(wk, day) ==
    LET key == MondayKey(day.timestamp) IN
    IF IndexOfKey(wk, key, Len(wk)) = 0
    THEN Append(wk, [key |-> key, volume |-> day.volume, fees |-> day.fees])
    ELSE wk

\* One turn of the loop of aggregateWeekly on the object wk.
WeekStep(wk, day) ==
    LET key == MondayKey(day.timestamp)
        ww == IF IndexOfKey(wk, key, Len(wk)) = 0
              THEN Append(wk, [key |-> key, volume |-> 0, fees |-> 0])
              ELSE wk
        n == IndexOfKey(ww, key, Len(ww))
    IN  [ww EXCEPT ![n].volume = AddTo(@, day.volume),
                   ![n].fees = AddTo(@, day.fees)]

\* A bug: the weeks are returned in the order they were created.
Unsorted(wk) == wk

\* Object.values(weekly).sort((a, b) => a.date.localeCompare(b.date)): the
\* keys of an object are distinct, so the order is total.
RECURSIVE SortByDate(_)
SortByDate(wk) ==
    IF wk = <<>> THEN <<>>
    ELSE LET m == CHOOSE i \in 1..Len(wk) :
                     \A j \in 1..Len(wk) : j = i \/ KeyLess(wk[i].key, wk[j].key)
             rest == [j \in 1..(Len(wk) - 1) |-> IF j < m THEN wk[j] ELSE wk[j + 1]]
         IN  <<wk[m]>> \o SortByDate(rest)

\* calculateVolumeAndFees(swaps): the next swap is folded.
FoldSwap ==
    /\ apc = "daily"
    /\ ai <= Len(swapsIn)
    /\ dailyData' = CalcStep(dailyData, swapsIn[ai])
    /\ ai' = ai + 1
    /\ UNCHANGED <<limVars, grVars, fetchVars, outVars, mainVars, swapsIn, apc,
                   totalVolume, weekly, weeklyData>>

\* calculateVolumeAndFees returns Object.values(dailyData); main calls
\* calculateTotalVolume(dailyData) and then aggregateWeekly(dailyData).
TotalVolume ==
    /\ apc = "daily"
    /\ ai > Len(swapsIn)
    /\ totalVolume' = calculateTotalVolume(dailyData, Len(dailyData))
    /\ apc' = "weekly"
    /\ ai' = 1
    /\ UNCHANGED <<limVars, grVars, fetchVars, outVars, mainVars, swapsIn,
                   dailyData, weekly, weeklyData>>

\* aggregateWeekly(dailyData): the next day is folded.
FoldDay ==
    /\ apc = "weekly"
    /\ ai <= Len(dailyData)
    /\ weekly' = WeekStep(weekly, dailyData[ai])
    /\ ai' = ai + 1
    /\ UNCHANGED <<limVars, grVars, fetchVars, outVars, mainVars, swapsIn, apc,
                   dailyData, totalVolume, weeklyData>>

\* aggregateWeekly returns the sorted weeks.
SortWeeks ==
    /\ apc = "weekly"
    /\ ai > Len(dailyData)
    /\ weeklyData' = SortByDate(weekly)
    /\ apc' = "done"
    /\ UNCHANGED <<limVars, grVars, fetchVars, outVars, mainVars, swapsIn, ai,
                   dailyData, totalVolume, weekly>>

\* main has the swaps of a chain, at least one (lines 312-319), in any
\* order and of any content.
InitAgg ==
    /\ pc = <<>>
    /\ LimiterInit(1)
    /\ req = <<>>
    /\ trace = <<>>
    /\ NoFetch
    /\ NoOutcome
    /\ NoMain
    /\ \E n \in 1..MaxLen : swapsIn \in [1..n -> SwapValues]
    /\ apc = "daily"
    /\ ai = 1
    /\ dailyData = <<>>
    /\ totalVolume = 0
    /\ weekly = <<>>
    /\ weeklyData = <<>>

NextAgg ==
    \/ FoldSwap
    \/ TotalVolume
    \/ FoldDay
    \/ SortWeeks

SpecAgg == InitAgg /\ [][NextAgg]_vars

----------------------------------------------------------------------------
(* Properties of the limiter (SpecLim)                                     *)

\* the callers whose unit has started and has not finished
Executing == {p \in Callers : pc[p] = "running"}

\* the position of x in the sequence s, 0 when absent
Pos(s, x) == IF \E i \in 1..Len(s) : s[i] = x
             THEN CHOOSE i \in 1..Len(s) : s[i] = x
             ELSE 0

\* C1: in every reachable state the number of units that have started and
\* not finished is at most the configured limit.
C1_AtMostLimit == Cardinality(Executing) <= limit

\* C1's case: more callers than the limit have arrived, the limit is
\* reached, a waiter was woken and a caller is suspended.
C1_Witness ==
    /\ Len(arrived) > limit
    /\ Cardinality(Executing) = limit
    /\ relOrder # <<>>
    /\ queue # <<>>

\* C5 as stated: a caller that was suspended starts before every caller
\* that called run after it (nobody overtakes a suspended caller).
C5_NoOvertaking ==
    \A p, q \in Callers :
        ( /\ Pos(enq, p) > 0
          /\ Pos(arrived, q) > Pos(arrived, p)
          /\ Pos(started, q) > 0 )
        => ( Pos(started, p) > 0 /\ Pos(started, p) < Pos(started, q) )

\* C5 amended: waiters are resolved in the order they were pushed on the
\* queue (oldest first): the pushes are the resolved ones followed by the
\* ones still queued.
C5_ReleasedInQueueOrder == enq = relOrder \o queue

\* C5's case: two waiters have been resolved, and a resolved waiter that
\* found the slot taken has gone back to the queue.
C5_Witness ==
    /\ Len(relOrder) >= 2
    /\ Len(enq) > Cardinality({enq[i] : i \in 1..Len(enq)})

\* C32: when a caller is suspended in the queue and no resolved caller is
\* waiting to resume, running equals the limit; a resolved caller that
\* finds the limit reached when it resumes goes back to the queue and
\* running stays as it is.
C32_NoLostWakeUp ==
    /\ []((queue # <<>> /\ wake = <<>>) => running = limit)
    /\ [][(wake # <<>> /\ wake' = Tail(wake) /\ running >= limit)
            => /\ queue' = Append(queue, Head(wake))
               /\ pc'[Head(wake)] = "waiting"
               /\ running' = running
               /\ started' = started]_vars

\* C32's case: a resolved caller found its slot taken by a caller that
\* arrived after it, and is in the queue again with the limit reached.
C32_Witness ==
    /\ queue # <<>>
    /\ wake = <<>>
    /\ running = limit
    /\ \E i \in 1..Len(relOrder) :
          /\ queue[Len(queue)] = relOrder[i]
          /\ \E q \in Executing : Pos(arrived, q) > Pos(arrived, relOrder[i])

\* the callers that have called run
Submitted == {arrived[i] : i \in 1..Len(arrived)}

\* C33: running is the number of units that have started and not finished,
\* between 0 and the limit; when every unit submitted has finished, running
\* is 0 and no waiter is queued or resolved.
C33_ReturnsToInitial ==
    /\ running = Cardinality(Executing)
    /\ running = Len(started) - Cardinality({p \in Callers : runOut[p] # None})
    /\ running \in 0..limit
    /\ (\A p \in Submitted : pc[p] = "done")
          => running = 0 /\ queue = <<>> /\ wake = <<>>

\* C33's case: every caller has called run, some were suspended, a unit
\* threw, all have finished and the limiter is as it was constructed.
C33_Witness ==
    /\ Submitted = Callers
    /\ \A p \in Callers : pc[p] = "done"
    /\ enq # <<>>
    /\ \E p \in Callers : runOut[p] = "threw"
    /\ running = 0 /\ queue = <<>>


\* the step in which the unit of caller p throws
Throws(p) == runOut[p] = None /\ runOut'[p] = "threw"

\* what the failure of p's unit does to the limiter and to the other callers
FailureIsContained(p) ==
    /\ unitOut'[p] = "threw"
    /\ pc'[p] = "done"
    /\ running' = running - 1
    /\ IF queue = <<>>
       THEN queue' = queue /\ relOrder' = relOrder /\ wake' = wake
       ELSE /\ queue' = Tail(queue)
            /\ relOrder' = Append(relOrder, Head(queue))
            /\ wake' = Append(wake, Head(queue))
    /\ \A q \in Callers \ {p} :
          /\ runOut'[q] = runOut[q]
          /\ unitOut'[q] = unitOut[q]
          /\ \/ pc'[q] = pc[q]
             \/ queue # <<>> /\ q = Head(queue) /\ pc'[q] = "released"

\* C16: when a unit throws, its run call fails with it, running goes down
\* by one, the oldest queued waiter if any is resolved and no other; a run
\* call that has settled stays settled, and every caller of run still gets
\* the outcome of its own unit.
C16_FailureDoesNotDamage ==
    /\ [][\A p \in Callers : Throws(p) => FailureIsContained(p)]_vars
    /\ [][\A p \in Callers : runOut[p] # None =>
              (runOut'[p] = runOut[p] /\ pc'[p] = "done" /\ pc[p] = "done")]_vars
    /\ \A q \in 1..NCallers :
          (pc[q] # "idle") ~> (pc[q] = "done" /\ runOut[q] # None
                                /\ runOut[q] = unitOut[q])

\* C16's case: with limit 1 the first unit threw while another caller was
\* queued; that caller was resolved by the failed run and all the other
\* units returned.
C16_Witness ==
    /\ limit = 1
    /\ Len(started) = NCallers
    /\ runOut[started[1]] = "threw"
    /\ Len(enq) >= 1 /\ Len(relOrder) >= 1
    /\ enq[1] = started[2]
    /\ \A q \in Callers \ {started[1]} : runOut[q] = "ok" /\ pc[q] = "done"
    /\ running = 0

\* C17: every caller that has called run eventually starts its unit, and its
\* run call eventually returns, whenever the callers arrive.
C17_NoStarvation ==
    \A p \in 1..NCallers :
        /\ (pc[p] # "idle") ~> (\E k \in 1..Len(started) : started[k] = p)
        /\ (pc[p] # "idle") ~> (pc[p] = "done")

\* C17's case: a caller that was suspended, resolved, overtaken and
\* suspended again has run and returned, like all the others.
C17_Witness ==
    /\ \A p \in Callers : pc[p] = "done"
    /\ \E p \in Callers :
          Cardinality({k \in 1..Len(enq) : enq[k] = p}) >= 2

----------------------------------------------------------------------------
(* Properties of graphRequest (SpecGR)                                     *)

Sends == {k \in 1..Len(trace) : trace[k].e = "send"}
Waits == {k \in 1..Len(trace) : trace[k].e = "wait"}

\* C2 as stated: a response with a non-transient errors payload ends the
\* call on that attempt with that error: no wait and no attempt follows it.
C2_NonTransientFailsAtOnce ==
    \A k \in 1..Len(trace) :
        (trace[k].e = "resp" /\ trace[k].kind = "other")
        => /\ k = Len(trace)
           /\ req[0].phase = "threw"
           /\ req[0].out = [kind |-> "graphql", text |-> "other", at |-> trace[k].i]

\* C4: one call sends at most retries + 1 requests, whatever the attempts
\* return; a transport failure with attempts remaining is followed by a wait
\* of RETRY_WAIT and then by a send of the same request.
C4_BoundedAttempts ==
    /\ Cardinality(Sends) <= req[0].retries + 1
    /\ \A k \in 1..Len(trace) :
          ( /\ trace[k].e = "resp"
            /\ trace[k].kind = "transport"
            /\ trace[k].i < req[0].retries )
          => /\ k < Len(trace)
             /\ trace[k + 1] = [e |-> "wait", i |-> trace[k].i, ms |-> RETRY_WAIT]
             /\ k + 2 <= Len(trace) =>
                   trace[k + 2] = [e |-> "send", i |-> trace[k].i + 1,
                                   args |-> trace[1].args]

\* C4's case: every attempt of a call with retries failed, one of them by a
\* transport failure that was retried, and retries + 1 requests were sent.
C4_Witness ==
    /\ req[0].retries >= 1
    /\ req[0].phase = "threw"
    /\ Cardinality(Sends) = req[0].retries + 1
    /\ \E k \in 1..Len(trace) :
          /\ trace[k].e = "resp" /\ trace[k].kind = "transport"
          /\ k + 2 <= Len(trace)
    /\ \E k \in 1..Len(trace) : trace[k].e = "resp" /\ trace[k].kind = "other"
    /\ \E k \in 1..Len(trace) : trace[k].e = "resp" /\ trace[k].kind = "bad indexers"


\* C38: a wait comes only after a failed attempt that is not the last one
\* and is followed by the next attempt; it lasts BAD_INDEXERS_WAIT after a
\* 'bad indexers' error and RETRY_WAIT after any other failure; every
\* attempt but the first comes right after one wait; a call that has
\* settled ended on a response; there are at most retries waits.
C38_WaitsOnlyBetweenAttempts ==
    /\ \A k \in Waits :
          /\ k > 1
          /\ trace[k - 1].e = "resp"
          /\ trace[k - 1].i = trace[k].i
          /\ trace[k].i < req[0].retries
          /\ trace[k].ms = IF trace[k - 1].kind = "bad indexers"
                           THEN BAD_INDEXERS_WAIT ELSE RETRY_WAIT
          /\ k < Len(trace) =>
                trace[k + 1] = [e |-> "send", i |-> trace[k].i + 1,
                                args |-> trace[1].args]
          /\ k = Len(trace) => req[0].phase = "sleep"
    /\ \A k \in Sends : k > 1 => trace[k - 1].e = "wait"
    /\ GRSettled(req[0]) => trace[Len(trace)].e = "resp"
    /\ Cardinality(Waits) <= req[0].retries
    /\ Cardinality(Waits) = Cardinality(Sends) - 1
          + (IF req[0].phase = "sleep" THEN 1 ELSE 0)

\* C38's case: a call with two retries failed on every attempt, waited
\* once BAD_INDEXERS_WAIT and once RETRY_WAIT, and threw at the last
\* response without waiting.
C38_Witness ==
    /\ req[0].retries = 2
    /\ req[0].phase = "threw"
    /\ Cardinality(Waits) = 2
    /\ \E k \in Waits : trace[k].ms = BAD_INDEXERS_WAIT
    /\ \E k \in Waits : trace[k].ms = RETRY_WAIT
    /\ trace[Len(trace)].e = "resp" /\ trace[Len(trace)].kind = "bad indexers"


\* the responses of the call, and the kind of response an error came from
Resps == {k \in 1..Len(trace) : trace[k].e = "resp"}
RespKindOf(err) ==
    CASE err.kind = "transport" -> "transport"
      [] err.kind = "parse" -> "invalid"
      [] err.kind = "graphql" -> err.text

\* C14: a response whose errors payload has 'bad indexers', with attempts
\* remaining, is followed by one wait of BAD_INDEXERS_WAIT and then by a send
\* of the same request; on the last attempt that error is raised instead.
C14_TransientIsRetried ==
    \A k \in Resps :
        trace[k].kind = "bad indexers"
        => IF trace[k].i < req[0].retries
           THEN /\ k < Len(trace)
                /\ trace[k + 1] = [e |-> "wait", i |-> trace[k].i,
                                   ms |-> BAD_INDEXERS_WAIT]
                /\ k + 2 <= Len(trace) =>
                      trace[k + 2] = [e |-> "send", i |-> trace[k].i + 1,
                                      args |-> trace[1].args]
           ELSE /\ k = Len(trace)
                /\ req[0].phase = "threw"
                /\ req[0].out = [kind |-> "graphql", text |-> "bad indexers",
                                 at |-> trace[k].i]

\* C14's case: a 'bad indexers' response was retried after its wait, and the
\* last attempt's 'bad indexers' response was raised.
C14_Witness ==
    /\ req[0].retries >= 1
    /\ req[0].phase = "threw"
    /\ req[0].out.text = "bad indexers"
    /\ \E k \in Resps :
          /\ trace[k].kind = "bad indexers"
          /\ trace[k].i < req[0].retries
          /\ k + 2 <= Len(trace)

\* C15: a call fails only after retries + 1 failed attempts and with the
\* error of the last one; a call that returns gives the data of the one
\* attempt that succeeded, which is its last attempt.
C15_LastErrorOrFirstData ==
    /\ req[0].phase = "threw" =>
          /\ Cardinality(Sends) = req[0].retries + 1
          /\ Cardinality(Resps) = req[0].retries + 1
          /\ \A k \in Resps : trace[k].kind # "data"
          /\ trace[Len(trace)].e = "resp"
          /\ trace[Len(trace)].i = req[0].retries
          /\ req[0].out.at = req[0].retries
          /\ trace[Len(trace)].kind = RespKindOf(req[0].out)
    /\ req[0].phase = "returned" =>
          /\ trace[Len(trace)].e = "resp"
          /\ trace[Len(trace)].kind = "data"
          /\ req[0].out = trace[Len(trace)].data
          /\ trace[Len(trace)].i = Cardinality(Sends) - 1
    /\ \A k \in Resps : trace[k].kind = "data" =>
          /\ k = Len(trace)
          /\ req[0].phase = "returned"

\* C15's case: the attempts failed in different ways and the call failed with
\* the last attempt's error.
C15_Witness ==
    /\ req[0].retries >= 1
    /\ req[0].phase = "threw"
    /\ \E k \in Resps : trace[k].kind # trace[Len(trace)].kind

\* C15's other case: an attempt after a failed one succeeded.
C15_ReturnWitness ==
    /\ req[0].phase = "returned"
    /\ Cardinality(Sends) >= 2
    /\ Cardinality(Sends) <= req[0].retries
    /\ req[0].out.d = "swaps"

----------------------------------------------------------------------------
(* Properties of fetchPoolSwapsSuperFast (SpecFetch)                       *)

RECURSIVE FullPages(_)
\* the records of the first n pages when each of them is full
FullPages(n) ==
    IF n = 0 THEN <<>>
    ELSE FullPages(n - 1) \o PageRecs((n - 1) * PAGE_SIZE, PAGE_SIZE)

\* the records of the sequence s, as a set
Recs(s) == {s[i] : i \in 1..Len(s)}

\* r is the result of a page the server answered with no record
IsEmptyPage(r) == r.settled /\ ~r.failed /\ Len(r.swaps) = 0

\* r is the result of a full page
IsFullPage(r) == r.settled /\ Len(r.swaps) = PAGE_SIZE

\* (offset, index) of a precedes (offset, index) of b
Before(a, b) == a[1] < b[1] \/ (a[1] = b[1] /\ a[2] < b[2])

\* the wave an offset belongs to: 0 for the first page, then 1, 2, ...
WaveOf(o) == IF o = 0 THEN 0 ELSE 1 + ((o \div PAGE_SIZE) - 1) \div CHUNK_SIZE

\* C3 as stated: fewer than five consecutive empty pages do not stop the
\* fetch: a non-empty page that follows them (after full pages only) is
\* accumulated.
C3_FewEmptiesDoNotStop ==
    fpc = "returned" =>
        \A j \in Slots :
            ( /\ results[j].settled
              /\ Len(results[j].swaps) > 0
              /\ \A i \in 1..(j - 1) : IsFullPage(results[i]) \/ IsEmptyPage(results[i])
              /\ Cardinality({i \in 1..(j - 1) : IsEmptyPage(results[i])}) < EMPTY_STOP )
            => Recs(results[j].swaps) \subseteq Recs(allSwaps)

\* C6: the fetch returns at the first page shorter than PAGE_SIZE: what it
\* returns is the full pages before it followed by that page's records, no
\* later page of the wave is added and no further wave is issued.
C6_StopsAtFirstShortPage ==
    fpc = "returned" =>
        IF ~results[0].hasMore
        THEN /\ allSwaps = results[0].swaps
             /\ skip = 0
        ELSE LET short == {k \in Slots : ~results[k].hasMore}
                 base == 1 + chunk * CHUNK_SIZE
             IN  short # {} =>
                    LET k == CHOOSE x \in short : \A y \in short : x <= y IN
                    /\ allSwaps = FullPages(base + k - 1) \o results[k].swaps
                    /\ stopAt = <<(base + k - 1) * PAGE_SIZE>>
                    /\ skip = (base + CHUNK_SIZE) * PAGE_SIZE

\* C6's case: a short page in the middle of a wave, with a full page after
\* it in the same wave, has ended the fetch.
C6_Witness ==
    /\ fpc = "returned"
    /\ results[0].hasMore
    /\ \E k \in Slots : \E j \in Slots :
          /\ k < j
          /\ Len(results[k].swaps) = 1
          /\ IsFullPage(results[j])
          /\ \A i \in 1..(k - 1) : IsFullPage(results[i])

\* C6's scenario: a full first page and an empty second page.
C6_ScenarioWitness ==
    /\ fpc = "returned"
    /\ IsFullPage(results[0])
    /\ IsEmptyPage(results[1])
    /\ allSwaps = PageRecs(0, PAGE_SIZE)

\* C7: fetchPoolSwapsSuperFast never throws, and a page whose request failed
\* counts as the empty page result.
C7_FailedPageNeverPropagates ==
    /\ fpc # "threw"
    /\ \A s \in 0..CHUNK_SIZE :
          results[s].failed => results[s] = EmptyResult(TRUE)

\* C7's case: the request of a page of a wave failed and the fetch returned.
C7_Witness ==
    /\ fpc = "returned"
    /\ \E o \in failedPages : o > 0

\* C8 as stated: when a single page request of a wave fails after full pages
\* only, the full pages at higher offsets are in the returned sequence.
C8_OneBadPageDoesNotEnd ==
    fpc = "returned" =>
        \A k \in Slots :
            ( /\ results[k].failed
              /\ Cardinality({i \in Slots : results[i].failed}) = 1
              /\ \A i \in 1..(k - 1) : IsFullPage(results[i]) )
            => ( (\A j \in Slots : j > k => IsFullPage(results[j]))
                 => \A j \in Slots :
                       j > k => Recs(results[j].swaps) \subseteq Recs(allSwaps) )

\* C9: whatever the order in which the requests complete, the accumulated
\* records are in request order, that is by increasing offset and, within a
\* page, in the order of the page.
C9_IssueOrder ==
    \A i \in 1..Len(allSwaps) : \A j \in 1..Len(allSwaps) :
        i < j => Before(allSwaps[i], allSwaps[j])

\* C9's case: two pages of a wave completed in the order opposite to their
\* offsets and both were accumulated.
C9_Witness ==
    /\ fpc = "returned"
    /\ \E a \in Slots : \E b \in Slots :
          /\ a < b
          /\ Pos(doneOrder, b) < Pos(doneOrder, a)
          /\ Pos(doneOrder, b) > 0
          /\ Len(results[a].swaps) > 0
          /\ Len(results[b].swaps) > 0
          /\ Recs(results[a].swaps) \cup Recs(results[b].swaps) \subseteq Recs(allSwaps)

\* C10: waves are barriers: while a request of a wave is outstanding no
\* record of that wave is accumulated, no stop condition has been decided and
\* no request of another wave is outstanding.
C10_WavesAreBarriers ==
    /\ \A o \in outstanding :
          /\ WaveOf(o) = chunk + 1
          /\ \A i \in 1..Len(allSwaps) : WaveOf(allSwaps[i][1]) # WaveOf(o)
    /\ (fpc = "returned" \/ stopAt # <<>>) => outstanding = {}

\* C10's case: the second wave has requests outstanding and the first wave
\* was accumulated in full.
C10_Witness ==
    /\ chunk = 1
    /\ fpc = "wave"
    /\ outstanding # {}
    /\ Cardinality(outstanding) < CHUNK_SIZE
    /\ allSwaps = FullPages(1 + CHUNK_SIZE)

\* the page requests whose graphRequest call is in progress, retries and
\* backoff waits included
InFlight == {s \in 0..CHUNK_SIZE : req[s].phase \in {"fetch", "json", "sleep"}}

C12_HardCeiling ==
    /\ Len(issuedLog) <= MAX_CHUNKS * CHUNK_SIZE
    /\ \A i \in 1..Len(issuedLog) : issuedLog[i] = i * PAGE_SIZE
    /\ chunk <= MAX_CHUNKS
    /\ chunk = MAX_CHUNKS => fpc = "returned"

\* C12's case: every page of every wave was full and the fetch returned.
C12_Witness ==
    /\ fpc = "returned"
    /\ Len(issuedLog) = MAX_CHUNKS * CHUNK_SIZE
    /\ allSwaps = FullPages(1 + MAX_CHUNKS * CHUNK_SIZE)

\* C13: the first page alone decides: an empty first page gives the empty
\* sequence, a first page with fewer than PAGE_SIZE records is returned as it
\* is, in both cases without any further request; only a full first page
\* leads to a wave.
C13_FirstPageDecides ==
    /\ issuedLog # <<>> => IsFullPage(results[0])
    /\ (results[0].settled /\ ~IsFullPage(results[0]))
       => /\ fpc = "returned"
          /\ allSwaps = results[0].swaps
          /\ Len(allSwaps) < PAGE_SIZE
          /\ issuedLog = <<>>
          /\ begun = <<0>>

\* C13's case: a first page with records, fewer than PAGE_SIZE, was returned.
C13_Witness ==
    /\ fpc = "returned"
    /\ Len(allSwaps) > 0
    /\ Len(allSwaps) < PAGE_SIZE
    /\ allSwaps = results[0].swaps

\* C13's other case: an empty first page.
C13_EmptyWitness ==
    /\ fpc = "returned"
    /\ IsEmptyPage(results[0])
    /\ allSwaps = <<>>

\* C34: the accumulated records, and so the sequence returned, are the
\* first records of the pool without a gap: the pages at offsets 0,
\* PAGE_SIZE, ... up to some page, in order, each page before the last with
\* exactly PAGE_SIZE records.
C34_GapFreePrefix ==
    /\ \A i \in 1..Len(allSwaps) :
          allSwaps[i] = <<((i - 1) \div PAGE_SIZE) * PAGE_SIZE,
                          ((i - 1) % PAGE_SIZE) + 1>>
    /\ fpc = "returned" =>
          \E k \in 0..(MAX_CHUNKS * CHUNK_SIZE) : \E n \in 0..PAGE_SIZE :
             allSwaps = FullPages(k) \o PageRecs(k * PAGE_SIZE, n)

\* C34's case: in a wave the page after a full page failed and the page
\* after that one had records; the fetch returned the first two pages only.
C34_Witness ==
    /\ fpc = "returned"
    /\ allSwaps = FullPages(2)
    /\ results[2].failed
    /\ Len(results[3].swaps) > 0

\* C35: the results of a wave are examined only when all its CHUNK_SIZE
\* requests have been made and sent; a fetch that has returned has sent
\* 1 + CHUNK_SIZE * w page requests, w in 0..MAX_CHUNKS the number of waves
\* started, also when the first result of a wave stops it.
C35_WaveIssuedInFull ==
    /\ [][(allSwaps' # allSwaps \/ (fpc = "wave" /\ fpc' # "wave"))
            => \/ fpc = "first"
               \/ /\ fpc = "wave"
                  /\ Len(issuedLog) = CHUNK_SIZE * (chunk + 1)
                  /\ Len(begun) = 1 + CHUNK_SIZE * (chunk + 1)]_vars
    /\ [](fpc = "returned" =>
            \E w \in 0..MAX_CHUNKS :
               /\ Len(issuedLog) = CHUNK_SIZE * w
               /\ Len(begun) = 1 + CHUNK_SIZE * w
               /\ w = IF issuedLog = <<>> THEN 0
                      ELSE IF stopAt # <<>> THEN chunk + 1 ELSE chunk)

\* C35's case: the first result of the first wave ended the fetch, and the
\* CHUNK_SIZE requests of the wave had all been sent, some after waiting
\* for a slot of the limiter.
C35_Witness ==
    /\ fpc = "returned"
    /\ stopAt = <<PAGE_SIZE>>
    /\ Len(begun) = 1 + CHUNK_SIZE
    /\ enq # <<>>
    /\ \A s \in Slots : results[s].settled

----------------------------------------------------------------------------
(* Properties of main (SpecMain)                                           *)

\* the chains whose pool was found, whose swap fetch returned at least one
\* record and in whose task no exception occurred
Succeeded ==
    {c \in Chains : /\ found[c] = "yes"
                    /\ fetched[c] # <<>>
                    /\ raised[c] = FALSE
                    /\ fetched[c][1] >= 1}

\* C18: output.chains and output.poolMetadata have the same keys, and once
\* the result is assembled these are exactly the chains that succeeded; a
\* chain whose fetch returned no record is marked failed and has no entry.
C18_ExactlyTheSucceeded ==
    /\ DOMAIN output.chains = DOMAIN output.poolMetadata
    /\ mpc \in {"written", "fatal"} => DOMAIN output.chains = Succeeded
    /\ mpc = "chains" => DOMAIN output.chains = {}
    /\ \A c \in Chains :
          (cpc[c] = "done" /\ fetched[c] = <<0>>)
          => /\ cres[c].success = FALSE
             /\ tally[c].failed = 1
             /\ c \notin DOMAIN output.chains

\* C18's case: the output is written with the entry of a chain that
\* succeeded, and without one for a chain whose fetch returned no record.
C18_Witness ==
    /\ mpc = "written"
    /\ \E c \in Chains, d \in Chains :
          /\ c \in DOMAIN output.chains
          /\ output.chains[c] = fetched[c][1]
          /\ fetched[d] = <<0>>
          /\ d \notin DOMAIN output.chains

\* C19: a chain whose details query returned no pool is marked failed once
\* (completed + 1, failed + 1) with "Pool not found", no swap page request
\* is issued for it, and it has no entry in the output.
C19_NoPoolExitsEarly ==
    \A c \in Chains :
        found[c] = "no"
        => /\ cpc[c] = "done"
           /\ reason[c] = "Pool not found"
           /\ tally[c] = [completed |-> 1, successful |-> 0, failed |-> 1]
           /\ cres[c] = FailedResult
           /\ swapReqs[c] = 0
           /\ fetched[c] = <<>>
           /\ c \notin DOMAIN output.chains
           /\ c \notin DOMAIN output.poolMetadata

\* C19's case: the output is written, a chain had no pool and another chain
\* went on to fetch its swaps.
C19_Witness ==
    /\ mpc = "written"
    /\ \E c \in Chains, d \in Chains :
          /\ found[c] = "no"
          /\ progress.failed >= 1
          /\ swapReqs[d] = 1

\* C20: completed = successful + failed and completed <= total in every
\* state; a chain task counts once as completed and once as either
\* successful or failed, when it settles; when all have settled,
\* completed = total.
C20_CountersConsistent ==
    /\ progress.completed = progress.successful + progress.failed
    /\ progress.completed <= progress.total
    /\ progress.completed = Cardinality({c \in Chains : cpc[c] = "done"})
    /\ progress.successful = Cardinality({c \in Chains : cres[c].success})
    /\ \A c \in Chains :
          /\ tally[c].completed = (IF cpc[c] = "done" THEN 1 ELSE 0)
          /\ tally[c].successful + tally[c].failed = tally[c].completed
          /\ tally[c].successful = (IF cres[c].success THEN 1 ELSE 0)
    /\ (\A c \in Chains : cpc[c] = "done")
       => progress.completed = progress.total

\* C20's case: all the chains have settled, one as successful and one as
\* failed.
C20_Witness ==
    /\ \A c \in Chains : cpc[c] = "done"
    /\ progress.successful >= 1
    /\ progress.failed >= 1
    /\ progress.completed = MaxChains

\* main has gone past the write: the file is written, or the file system
\* refused and the run ended on the fatal path
Ended == mpc \in {"written", "fatal"}

\* C21: writeFileSync is called at most once and only when every chain task
\* has settled; a chain task that has not settled can always take its next
\* step, whatever the other chains do; every chain task settles, and main
\* then writes the output, which fails only when the file system refuses.
C21_WritesOnceAfterAll ==
    /\ [](Len(wrote) <= 1)
    /\ [](wrote # <<>> => (Ended /\ \A c \in Chains : cres[c].settled))
    /\ []((mpc = "fatal") => (wrote = <<FALSE>>))
    /\ []((mpc = "written") => (wrote = <<TRUE>>))
    /\ [](\A c \in Chains : cpc[c] # "done" => ENABLED ChainStep(c))
    /\ \A c \in 1..MaxChains :
          (c \in Chains) ~> (c \in Chains /\ cpc[c] = "done")
    /\ <>Ended

\* C21's case: the output is written after a chain whose details query
\* failed with an exception and a chain that succeeded.
C21_Witness ==
    /\ wrote = <<TRUE>>
    /\ \E c \in Chains, d \in Chains :
          /\ raised[c] /\ found[c] = None /\ swapReqs[c] = 0
          /\ cres[d].success
          /\ d \in DOMAIN output.chains

\* the step in which an exception reaches the catch block of chain c
Raises(c) == ~raised[c] /\ raised'[c]

\* C22: an exception in the task of a chain marks that chain failed and
\* changes nothing of any other chain; the run does not end on the fatal
\* path because of it; and the entry written for a chain is made of that
\* chain's own pool and swaps only, so it is the same whichever other chains
\* are configured and however the tasks interleave.
C22_ChainsIsolated ==
    /\ [][\A c \in Chains : Raises(c) =>
            /\ cres'[c] = FailedResult
            /\ tally'[c] = [completed |-> 1, successful |-> 0, failed |-> 1]
            /\ reason'[c] = "exception"
            /\ mpc' = mpc /\ output' = output
            /\ \A d \in Chains \ {c} :
                  /\ cpc'[d] = cpc[d] /\ cres'[d] = cres[d]
                  /\ req'[d] = req[d] /\ poolOf'[d] = poolOf[d]
                  /\ tally'[d] = tally[d] /\ reason'[d] = reason[d]]_vars
    /\ []((\E c \in Chains : raised[c]) => (mpc = "fatal" => wrote = <<FALSE>>))
    /\ [](\A d \in Chains :
            /\ raised[d] => (d \notin DOMAIN output.chains
                            /\ d \notin DOMAIN output.poolMetadata)
            /\ (Ended /\ d \in Succeeded)
               => /\ output.chains[d] = fetched[d][1]
                  /\ output.poolMetadata[d] = d)

\* C22's case: the output is written, the task of one chain raised an
\* exception in the aggregation and another chain has its entry.
C22_Witness ==
    /\ wrote = <<TRUE>>
    /\ \E c \in Chains, d \in Chains :
          /\ raised[c] /\ fetched[c] # <<>>
          /\ d \in Succeeded
          /\ output.chains[d] = fetched[d][1]

\* C23: with no chain configured no request is made and the counters are
\* zero; main goes to the write at once, the output written has no chain, no
\* pool metadata and its lastUpdated, and the run ends on the fatal path only
\* when the file system refuses the write.
C23_ZeroChainsSucceeds ==
    /\ [](progress.total = 0 =>
            /\ req = <<>> /\ swapReqs = <<>>
            /\ progress = [total |-> 0, completed |-> 0, successful |-> 0,
                           failed |-> 0]
            /\ DOMAIN output.chains = {} /\ DOMAIN output.poolMetadata = {}
            /\ output.lastUpdated \in Now
            /\ ENABLED (\E fsOk \in BOOLEAN : Assemble(fsOk)) \/ Ended
            /\ mpc = "fatal" => wrote = <<FALSE>>)
    /\ (progress.total = 0 /\ mpc = "chains") ~> Ended

\* C23's case: no chain is configured and the output is written.
C23_Witness ==
    /\ progress.total = 0
    /\ Chains = {}
    /\ mpc = "written"
    /\ wrote = <<TRUE>>

\* what the task of chain c left behind: its message, its increments, what
\* its promise resolved with, whether its catch block ran, the records its
\* fetch returned, and the entry written for it
OutcomeOf(c) ==
    [reason |-> reason[c], tally |-> tally[c], cres |-> cres[c],
     raised |-> raised[c], fetched |-> fetched[c],
     written |-> c \in DOMAIN output.chains \/ c \in DOMAIN output.poolMetadata]

\* the outcome of a chain whose pool has no swap in the window
NoSwapsOutcome ==
    [reason |-> "No swaps in time range",
     tally |-> [completed |-> 1, successful |-> 0, failed |-> 1],
     cres |-> FailedResult, raised |-> FALSE, fetched |-> <<0>>,
     written |-> FALSE]

\* C36: when the request of the first swap page has failed after its
\* retries, the fetch returns no record and the chain fails by the 'No
\* swaps in time range' exit, not by the catch block; the chain is left
\* exactly as one whose first page came back empty.
C36_FirstPageFailureIsNoSwaps ==
    \A c \in Chains :
        /\ page0[c] = "failed" => OutcomeOf(c) = NoSwapsOutcome
        /\ page0[c] = "empty" => OutcomeOf(c) = NoSwapsOutcome
        /\ page0[c] # None => cpc[c] = "done" /\ found[c] = "yes"

\* C36's case: the first swap page of one chain failed, that of the other
\* chain was empty, and the output is written.
C36_Witness ==
    /\ mpc = "written"
    /\ \E c \in Chains : \E d \in Chains :
          /\ page0[c] = "failed" /\ page0[d] = "empty"
          /\ OutcomeOf(c) = OutcomeOf(d)
          /\ reason[c] = "No swaps in time range"
          /\ progress.failed = 2

----------------------------------------------------------------------------
(* Properties of the aggregation (SpecAgg)                                 *)

\* the swaps folded so far, and the days folded so far
Folded == IF apc = "daily" THEN ai - 1 ELSE Len(swapsIn)
DaysFolded == IF apc = "weekly" THEN ai - 1
              ELSE IF apc = "done" THEN Len(dailyData) ELSE 0

\* a swap that counts: its amountUSD is present and not zero
Counts(sw) == sw.amountUSD \notin {None, "0"}

\* |amountUSD| of a swap, and its fee tier in parts per million
AbsAmount(sw) ==
    LET a == ParseFloat(sw.amountUSD) IN Fl(IF a < 0 THEN 0 - a ELSE a)
TierPpm(sw) == IF sw.feeTier = None THEN 3000 ELSE ParseInt(sw.feeTier)

\* the sum, accumulated in input order, of |amountUSD| (what = "volume") or
\* of the per-swap fees (what = "fees") of the counting swaps of a day among
\* the first n swaps
RECURSIVE DaySum(_, _, _)
DaySum(day, n, what) ==
    IF n = 0 THEN 0
    ELSE LET sw == swapsIn[n]
             prev == DaySum(day, n - 1, what)
         IN  IF DayOf(sw.timestamp) = day /\ Counts(sw)
             THEN Fl(prev + (IF what = "volume" THEN AbsAmount(sw)
                             ELSE FeesOf(sw)))
             ELSE prev

FeesOn(daily, key) ==
    LET n == IndexOfKey(daily, key, Len(daily)) IN
    IF n = 0 THEN 0 ELSE daily[n].fees

\* C25: folding a counting swap adds to the fees of its day |amountUSD|
\* times its fee tier in millionths, the fee tier being 3000 when the swap
\* carries none.
C25_FeeIsAmountTimesTier ==
    [][(apc = "daily" /\ ai <= Len(swapsIn) /\ Counts(swapsIn[ai]))
       => LET sw == swapsIn[ai]
              key == CivilFromDays(DayOf(sw.timestamp))
          IN  FeesOn(dailyData', key)
                = Fl(FeesOn(dailyData, key) + Fl(AbsAmount(sw) * TierPpm(sw)))]_vars

\* C25's case: a swap with a fee tier and a swap without one are folded.
C25_Witness ==
    /\ apc = "done"
    /\ \E i \in 1..Len(swapsIn), j \in 1..Len(swapsIn) :
          /\ Counts(swapsIn[i]) /\ swapsIn[i].feeTier = None
          /\ Counts(swapsIn[j]) /\ swapsIn[j].feeTier = "500"
          /\ DayOf(swapsIn[i].timestamp) # DayOf(swapsIn[j].timestamp)
    /\ \E b \in {dailyData[i] : i \in 1..Len(dailyData)} : b.fees = Fl(7 * 3000)
    /\ \E b \in {dailyData[i] : i \in 1..Len(dailyData)} : b.fees = Fl(2 * 500)

\* the swaps folded so far without those that are skipped
Kept == SelectSeq(SubSeq(swapsIn, 1, Folded), Counts)

\* calculateVolumeAndFees on the first n swaps of seq
RECURSIVE CalcAll(_, _)
CalcAll(seq, n) == IF n = 0 THEN <<>> ELSE CalcStep(CalcAll(seq, n - 1), seq[n])

\* C26: a swap whose amountUSD is zero or absent adds nothing: the buckets
\* have the volume and the fees of the buckets computed from the input
\* without these swaps, a date with no other swap has volume 0 and fees 0,
\* and the total volume is the same.
C26_SkippedAddNothing ==
    LET ref == CalcAll(Kept, Len(Kept)) IN
    /\ \A j \in 1..Len(ref) : \E i \in 1..Len(dailyData) :
          /\ dailyData[i].key = ref[j].key
          /\ dailyData[i].volume = ref[j].volume
          /\ dailyData[i].fees = ref[j].fees
    /\ \A i \in 1..Len(dailyData) :
          \/ \E j \in 1..Len(ref) : ref[j].key = dailyData[i].key
          \/ dailyData[i].volume = 0 /\ dailyData[i].fees = 0
    /\ calculateTotalVolume(dailyData, Len(dailyData))
          = calculateTotalVolume(ref, Len(ref))

\* C26's case: a swap without amount and a swap with amount "0" are folded
\* into the day of a counting swap.
C26_Witness ==
    /\ Folded = 3
    /\ Len(dailyData) = 1
    /\ \E i \in 1..3 : swapsIn[i].amountUSD = None
    /\ \E i \in 1..3 : swapsIn[i].amountUSD = "0"
    /\ \E i \in 1..3 : Counts(swapsIn[i]) /\ dailyData[1].volume = AbsAmount(swapsIn[i])

\* the latest Monday on or before a day number
LatestMonday(day) == CHOOSE m \in (day - 6)..day : (m + 4) % 7 = 1

\* C27: the key of the week of a daily bucket is the latest Monday on or
\* before the bucket's UTC date: a Sunday goes to the Monday six days
\* earlier, a Monday to itself, every date is 0 to 6 days after its key.
C27_WeekKeyIsMonday ==
    /\ \A d \in 20086..20100 :
          LET ts == d * 86400 + 3600
              m == LatestMonday(d)
          IN  /\ MondayKey(ts) = CivilFromDays(m)
              /\ d - m \in 0..6
              /\ (d + 4) % 7 = 0 => m = d - 6
              /\ (d + 4) % 7 = 1 => m = d
    /\ \A i \in 1..DaysFolded :
          \E w \in 1..Len(weekly) :
             weekly[w].key = CivilFromDays(LatestMonday(DayOf(dailyData[i].timestamp)))
    /\ \A w \in 1..Len(weekly) :
          \E i \in 1..DaysFolded :
             weekly[w].key = CivilFromDays(LatestMonday(DayOf(dailyData[i].timestamp)))

\* C27's case: the bucket of Sunday 2025-01-05 is in the week of Monday
\* 2024-12-30 and the bucket of Monday 2025-01-06 in its own week.
C27_Witness ==
    /\ apc = "done"
    /\ \E i \in 1..Len(dailyData) : dailyData[i].key = <<2025, 1, 5>>
    /\ \E i \in 1..Len(dailyData) : dailyData[i].key = <<2025, 1, 6>>
    /\ {weekly[w].key : w \in 1..Len(weekly)} = {<<2024, 12, 30>>, <<2025, 1, 6>>}

\* the date key YYYY-MM-DD as a number
KeyNum(k) == k[1] * 10000 + k[2] * 100 + k[3]

\* C28: the weekly series is in ascending order of date key, with no key
\* twice, whatever the order of the daily buckets; it has the buckets made
\* by the fold.
C28_WeeklySorted ==
    apc = "done" =>
        /\ \A i \in 1..Len(weeklyData) : \A j \in 1..Len(weeklyData) :
              i < j => KeyNum(weeklyData[i].key) < KeyNum(weeklyData[j].key)
        /\ Len(weeklyData) = Len(weekly)
        /\ {weeklyData[i] : i \in 1..Len(weeklyData)}
              = {weekly[i] : i \in 1..Len(weekly)}

\* C28's case: the daily buckets came in descending order of date and the
\* weeks were created in descending order.
C28_Witness ==
    /\ apc = "done"
    /\ Len(weekly) = 2
    /\ KeyNum(weekly[1].key) > KeyNum(weekly[2].key)
    /\ weeklyData = <<weekly[2], weekly[1]>>

\* the sum of a field of the buckets of seq, accumulated in order
RECURSIVE SumOf(_, _, _)
SumOf(seq, n, what) ==
    IF n = 0 THEN 0
    ELSE Fl(SumOf(seq, n - 1, what)
            + (IF what = "volume" THEN seq[n].volume ELSE seq[n].fees))

\* C29 as stated: the total volume of the daily buckets equals the sum of
\* the volumes of the weekly buckets, and likewise for the fees.
C29_WeeklyPreservesVolume ==
    apc = "done" =>
        /\ totalVolume = SumOf(weeklyData, Len(weeklyData), "volume")
        /\ SumOf(dailyData, Len(dailyData), "fees")
              = SumOf(weeklyData, Len(weeklyData), "fees")

\* the daily buckets of the week with key k among the first n
RECURSIVE WeekSum(_, _, _)
WeekSum(k, n, what) ==
    IF n = 0 THEN 0
    ELSE LET day == dailyData[n]
             prev == WeekSum(k, n - 1, what)
         IN  IF CivilFromDays(LatestMonday(DayOf(day.timestamp))) = k
             THEN Fl(prev + (IF what = "volume" THEN day.volume ELSE day.fees))
             ELSE prev

\* C29 corrected: every daily bucket is added to exactly one weekly bucket,
\* and a weekly bucket holds the sum of its days accumulated in their order;
\* the two totals are sums of the same daily values with the additions
\* grouped differently, and they are equal when all the days are in one week.
C29_SameDaysGroupedByWeek ==
    /\ \A i \in 1..DaysFolded :
          Cardinality({w \in 1..Len(weekly) :
             weekly[w].key = CivilFromDays(LatestMonday(DayOf(dailyData[i].timestamp)))}) = 1
    /\ \A w \in 1..Len(weekly) :
          /\ weekly[w].volume = WeekSum(weekly[w].key, DaysFolded, "volume")
          /\ weekly[w].fees = WeekSum(weekly[w].key, DaysFolded, "fees")
    /\ (apc = "done" /\ Len(weeklyData) = 1) =>
          /\ totalVolume = SumOf(weeklyData, 1, "volume")
          /\ SumOf(dailyData, Len(dailyData), "fees") = SumOf(weeklyData, 1, "fees")

\* C29's case: three days in two weeks whose total volume, added day by
\* day, is not the sum of the two weekly volumes.
C29_Witness ==
    /\ apc = "done"
    /\ Len(dailyData) = 3
    /\ Len(weeklyData) = 2
    /\ totalVolume # SumOf(weeklyData, 2, "volume")

\* C30: the volume and the fees of every daily and weekly bucket, and the
\* total volume, are never negative, negative amounts included.
C30_NonNegative ==
    /\ \A i \in 1..Len(dailyData) :
          dailyData[i].volume >= 0 /\ dailyData[i].fees >= 0
    /\ \A w \in 1..Len(weekly) : weekly[w].volume >= 0 /\ weekly[w].fees >= 0
    /\ \A w \in 1..Len(weeklyData) :
          weeklyData[w].volume >= 0 /\ weeklyData[w].fees >= 0
    /\ totalVolume >= 0

\* C30's case: swaps with a negative amount are folded into a day and a
\* week whose volume and fees are positive.
C30_Witness ==
    /\ apc = "done"
    /\ \A i \in 1..Len(swapsIn) : swapsIn[i].amountUSD = "-7"
    /\ Len(swapsIn) >= 2
    /\ \A w \in 1..Len(weeklyData) :
          weeklyData[w].volume > 0 /\ weeklyData[w].fees > 0

\* C31 as stated: the timestamp of a daily bucket is 00:00:00 UTC of the
\* bucket's date.
C31_TimestampIsBucketStart ==
    \A i \in 1..Len(dailyData) :
        dailyData[i].timestamp = DayOf(dailyData[i].timestamp) * 86400

\* the dates of the folded swaps none of which counts, as day numbers
SkippedOnlyDays ==
    {DayOf(swapsIn[n].timestamp) : n \in 1..Folded}
        \ {DayOf(swapsIn[n].timestamp) : n \in {k \in 1..Folded : Counts(swapsIn[k])}}

\* the weeks, as day numbers of their Mondays, of the folded counting swaps
CountedWeeks ==
    {LatestMonday(DayOf(swapsIn[n].timestamp)) :
        n \in {k \in 1..Folded : Counts(swapsIn[k])}}

\* C37: a date whose swaps all have a zero or absent amount has a daily
\* bucket with volume 0 and fees 0, and its week has a weekly bucket, with
\* volume 0 and fees 0 when the week has no counting swap.
C37_ZeroBucketForSkippedDate ==
    /\ \A d \in SkippedOnlyDays :
          \E i \in 1..Len(dailyData) :
             /\ dailyData[i].key = CivilFromDays(d)
             /\ dailyData[i].volume = 0
             /\ dailyData[i].fees = 0
    /\ apc = "done" =>
          \A d \in SkippedOnlyDays :
             \E w \in 1..Len(weeklyData) :
                /\ weeklyData[w].key = CivilFromDays(LatestMonday(d))
                /\ LatestMonday(d) \notin CountedWeeks
                      => weeklyData[w].volume = 0 /\ weeklyData[w].fees = 0

\* C37's case: the only swap of Sunday 2025-01-05 has no amount, the week
\* of 2024-12-30 has no other swap and is in the weekly series with volume
\* 0, next to a week with a counting swap.
C37_Witness ==
    /\ apc = "done"
    /\ SkippedOnlyDays = {DayOf(1736121599)}
    /\ Len(weeklyData) = 2
    /\ weeklyData[1] = [key |-> <<2024, 12, 30>>, volume |-> 0, fees |-> 0]
    /\ weeklyData[2].volume > 0

============================================================================
